---- MODULE Spec2Model ----
(***************************************************************************)
(* A model of the client invocation pipeline of src/client/client.go:      *)
(* Invoke, the filter chain, the selector filter and the byte pipeline     *)
(* callFunc.  One unary call is a sequential state machine; the selector,  *)
(* the transport, the codec and the user interceptors are the environment  *)
(* and answer nondeterministically.  A second specification (SpecConc)     *)
(* runs two concurrent attempts through the selector filter under an       *)
(* options-immutable context, with Go slices modelled as headers over      *)
(* shared backing arrays.                                                  *)
(***************************************************************************)
EXTENDS Integers, Sequences, FiniteSets, TLC

\* ------------------------------------------------------------------ bounds

\* The longest time (in clock units) one blocking step may take.
MaxDelay == 1
\* How many times one interceptor may invoke next within a call.
MaxNextCalls == 2
\* The latest full-link deadline an incoming context may carry.
MaxDeadline == 3

\* ------------------------------------------------------- program constants

\* codec.SerializationTypePB, the floor of the valid serialization types.
SerializationTypePB == 0
\* codec.SerializationTypeJSON.
SerializationTypeJSON == 2
\* codec.CompressTypeNoop, the floor of the valid compress types.
CompressTypeNoop == 0
\* codec.CompressTypeGzip.
CompressTypeGzip == 1
\* The value NewOptions gives Current*Type and a fresh message's types may
\* be overridden with: below every floor.
InvalidType == -1

IsValidSerializationType(t) == t >= SerializationTypePB

IsValidCompressType(t) == t >= CompressTypeNoop

\* ------------------------------------------------------------------ errors

\* The nil error.
Nil == [type |-> "nil", code |-> "nil", costs |-> <<>>]

\* errs.NewFrameError(code, msg): a framework-type error. costs is the list
\* of ", cost:<d>" suffixes the selector filter has appended to its message.
NewFrameError(code) == [type |-> "framework", code |-> code, costs |-> <<>>]

\* A business error (errs.New) such as a codec extracts from a response.
BusinessError(code) == [type |-> "business", code |-> code, costs |-> <<>>]

\* An error that is no *errs.Error (a plain Go error).
PlainError == [type |-> "plain", code |-> "io", costs |-> <<>>]

\* The sentinel errs.ErrClientNoResponse, compared by identity in callFunc.
ErrClientNoResponse == [type |-> "framework", code |-> "NoResponse", costs |-> <<>>]

\* The default Options.fixTimeout.
IdentityFix(err) == err

\* mayConvert2FullLinkTimeout: a framework ClientTimeout is re-tagged.
mayConvert2FullLinkTimeout(err) ==
    IF err.type = "framework" /\ err.code = "ClientTimeout"
    THEN [err EXCEPT !.code = "ClientFullLinkTimeout"]
    ELSE err

\* Options.fixTimeout, a function value held in the options: "identity" or
\* "fullLink".
ApplyFixTimeout(fix, err) ==
    IF fix = "fullLink" THEN mayConvert2FullLinkTimeout(err) ELSE IdentityFix(err)

\* Options.shouldErrReportToSelector, a user predicate: "never" (the
\* default), "onError" (true of every non-nil error) or "always" (true of
\* every error, nil included).
ShouldErrReportToSelector(pred, err) ==
    pred = "always" \/ (pred = "onError" /\ err # Nil)

\* ------------------------------------------- serializer, compressor, codec

Reverse(s) == [i \in 1..Len(s) |-> s[Len(s) + 1 - i]]

\* A body is a sequence of field values 0..2; a field 0 cannot be
\* serialized. PB writes nothing for an empty body, JSON writes "{}".
Marshal(t, body) ==
    IF \E i \in 1..Len(body) : body[i] = 0
    THEN [ok |-> FALSE, buf |-> <<>>]
    ELSE IF t = SerializationTypeJSON
         THEN [ok |-> TRUE,
               buf |-> <<200>> \o [i \in 1..Len(body) |-> body[i] + 20] \o <<201>>]
         ELSE [ok |-> TRUE, buf |-> [i \in 1..Len(body) |-> body[i] + 10]]

Unmarshal(t, buf) ==
    IF t = SerializationTypeJSON
    THEN IF /\ Len(buf) >= 2
            /\ buf[1] = 200
            /\ buf[Len(buf)] = 201
            /\ \A i \in 2..(Len(buf) - 1) : buf[i] \in 21..29
         THEN [ok |-> TRUE, body |-> [i \in 1..(Len(buf) - 2) |-> buf[i + 1] - 20]]
         ELSE [ok |-> FALSE, body |-> <<>>]
    ELSE IF \A i \in 1..Len(buf) : buf[i] \in 11..19
         THEN [ok |-> TRUE, body |-> [i \in 1..Len(buf) |-> buf[i] - 10]]
         ELSE [ok |-> FALSE, body |-> <<>>]

\* fails: the stages the environment makes fail on this call.
Compress(t, buf, fails) ==
    IF "Compress" \in fails THEN [ok |-> FALSE, buf |-> <<>>]
    ELSE IF buf = <<>> THEN [ok |-> TRUE, buf |-> <<>>]
    ELSE [ok |-> TRUE, buf |-> <<99>> \o Reverse(buf)]

Decompress(t, buf) ==
    IF buf = <<>> THEN [ok |-> TRUE, buf |-> <<>>]
    ELSE IF buf[1] = 99 THEN [ok |-> TRUE, buf |-> Reverse(Tail(buf))]
    ELSE [ok |-> FALSE, buf |-> <<>>]

\* Codec.Encode: a frame is <<magic, ret, body length>> \o body.
Encode(bodyBuf, fails) ==
    IF "Encode" \in fails THEN [ok |-> FALSE, buf |-> <<>>]
    ELSE [ok |-> TRUE, buf |-> <<77, 0, Len(bodyBuf)>> \o bodyBuf]

\* Codec.Decode: reads the head, sets the message's response error from a
\* non-zero ret, then checks the declared length against the frame; so a
\* failing Decode may already have set the response error.
Decode(rspBuf) ==
    IF Len(rspBuf) < 3 \/ rspBuf[1] # 77
    THEN [ok |-> FALSE, body |-> <<>>, rspErr |-> Nil]
    ELSE LET e == IF rspBuf[2] # 0 THEN BusinessError("ret") ELSE Nil
         IN  IF rspBuf[3] # Len(rspBuf) - 3
             THEN [ok |-> FALSE, body |-> <<>>, rspErr |-> e]
             ELSE [ok |-> TRUE, body |-> SubSeq(rspBuf, 4, Len(rspBuf)), rspErr |-> e]

\* ------------------------------------------------------- the byte pipeline

\* The serialization type a stage uses: Options.CurrentSerializationType
\* if valid, else the message's.
EffectiveSerializationType(opts, msg) ==
    IF IsValidSerializationType(opts.CurrentSerializationType)
    THEN opts.CurrentSerializationType ELSE msg.SerializationType

\* The compress type a stage uses, likewise.
EffectiveCompressType(opts, msg) ==
    IF IsValidCompressType(opts.CurrentCompressType)
    THEN opts.CurrentCompressType ELSE msg.CompressType

\* Each stage result carries stages, the registry and codec calls made so
\* far, in order.

\* serializeAndCompress, the Marshal half: [err, buf, stages].
marshalStage(t, reqBody) ==
    IF ~IsValidSerializationType(t)
    THEN [err |-> Nil, buf |-> <<>>, stages |-> <<>>]
    ELSE IF Marshal(t, reqBody).ok
    THEN [err |-> Nil, buf |-> Marshal(t, reqBody).buf, stages |-> <<"Marshal">>]
    ELSE [err |-> NewFrameError("ClientEncodeFail"), buf |-> <<>>, stages |-> <<"Marshal">>]

\* serializeAndCompress, the Compress half, m being the Marshal half's result.
compressStage(t, m, fails) ==
    IF m.err # Nil THEN m
    ELSE IF ~(IsValidCompressType(t) /\ t # CompressTypeNoop) THEN m
    ELSE IF Compress(t, m.buf, fails).ok
    THEN [err |-> Nil, buf |-> Compress(t, m.buf, fails).buf,
          stages |-> m.stages \o <<"Compress">>]
    ELSE [err |-> NewFrameError("ClientEncodeFail"), buf |-> <<>>,
          stages |-> m.stages \o <<"Compress">>]

serializeAndCompress(msg, reqBody, opts, fails) ==
    compressStage(EffectiveCompressType(opts, msg),
                  marshalStage(EffectiveSerializationType(opts, msg), reqBody),
                  fails)

\* A slip: Codec.Encode runs although serializeAndCompress failed.
encodeStage_AfterFailure(sc, fails) ==
    IF Encode(sc.buf, fails).ok
    THEN [err |-> Nil, buf |-> Encode(sc.buf, fails).buf, stages |-> sc.stages \o <<"Encode">>]
    ELSE [err |-> NewFrameError("ClientEncodeFail"), buf |-> <<>>,
          stages |-> sc.stages \o <<"Encode">>]

\* prepareRequestBuf after serializeAndCompress returned sc: Codec.Encode.
encodeStage(sc, fails) ==
    IF sc.err # Nil THEN sc
    ELSE IF Encode(sc.buf, fails).ok
    THEN [err |-> Nil, buf |-> Encode(sc.buf, fails).buf, stages |-> sc.stages \o <<"Encode">>]
    ELSE [err |-> NewFrameError("ClientEncodeFail"), buf |-> <<>>,
          stages |-> sc.stages \o <<"Encode">>]

prepareRequestBuf(msg, reqBody, opts, fails) ==
    encodeStage(serializeAndCompress(msg, reqBody, opts, fails), fails)

\* A slip: a failed Decompress is reported as an encode failure.
decompressStage_EncodeFail(t, rspBodyBuf) ==
    IF ~(IsValidCompressType(t) /\ t # CompressTypeNoop)
    THEN [err |-> Nil, buf |-> rspBodyBuf, stages |-> <<>>]
    ELSE IF Decompress(t, rspBodyBuf).ok
    THEN [err |-> Nil, buf |-> Decompress(t, rspBodyBuf).buf, stages |-> <<"Decompress">>]
    ELSE [err |-> NewFrameError("ClientEncodeFail"), buf |-> <<>>,
          stages |-> <<"Decompress">>]

\* processResponseBuf, the Decompress step: [err, buf, stages].
decompressStage(t, rspBodyBuf) ==
    IF ~(IsValidCompressType(t) /\ t # CompressTypeNoop)
    THEN [err |-> Nil, buf |-> rspBodyBuf, stages |-> <<>>]
    ELSE IF Decompress(t, rspBodyBuf).ok
    THEN [err |-> Nil, buf |-> Decompress(t, rspBodyBuf).buf, stages |-> <<"Decompress">>]
    ELSE [err |-> NewFrameError("ClientDecodeFail"), buf |-> <<>>,
          stages |-> <<"Decompress">>]

\* processResponseBuf, the Unmarshal step, d being the Decompress step's
\* result: [err, rspBody, stages].
unmarshalStage(t, rspBody, d) ==
    IF d.err # Nil THEN [err |-> d.err, rspBody |-> rspBody, stages |-> d.stages]
    ELSE IF ~IsValidSerializationType(t)
    THEN [err |-> Nil, rspBody |-> rspBody, stages |-> d.stages]
    ELSE IF Unmarshal(t, d.buf).ok
    THEN [err |-> Nil, rspBody |-> Unmarshal(t, d.buf).body,
          stages |-> d.stages \o <<"Unmarshal">>]
    ELSE [err |-> NewFrameError("ClientDecodeFail"), rspBody |-> rspBody,
          stages |-> d.stages \o <<"Unmarshal">>]

\* A slip: the response error is not looked at before the body is read.
processResponseBuf_IgnoresRspErr(msg, rspBody, rspBodyBuf, opts) ==
    IF Len(rspBodyBuf) = 0
    THEN [err |-> msg.ClientRspErr, rspBody |-> rspBody, stages |-> <<>>]
    ELSE unmarshalStage(EffectiveSerializationType(opts, msg), rspBody,
                        decompressStage(EffectiveCompressType(opts, msg), rspBodyBuf))

\* A slip: an empty response body ends the call only when nothing is to be
\* decompressed.
processResponseBuf_DecompressesEmpty(msg, rspBody, rspBodyBuf, opts) ==
    IF msg.ClientRspErr # Nil
    THEN [err |-> msg.ClientRspErr, rspBody |-> rspBody, stages |-> <<>>]
    ELSE IF /\ Len(rspBodyBuf) = 0
            /\ ~(/\ IsValidCompressType(EffectiveCompressType(opts, msg))
                 /\ EffectiveCompressType(opts, msg) # CompressTypeNoop)
    THEN [err |-> Nil, rspBody |-> rspBody, stages |-> <<>>]
    ELSE unmarshalStage(EffectiveSerializationType(opts, msg), rspBody,
                        decompressStage(EffectiveCompressType(opts, msg), rspBodyBuf))

\* A slip: an empty response body is unmarshalled like any other.
processResponseBuf_UnmarshalsEmpty(msg, rspBody, rspBodyBuf, opts) ==
    IF msg.ClientRspErr # Nil
    THEN [err |-> msg.ClientRspErr, rspBody |-> rspBody, stages |-> <<>>]
    ELSE unmarshalStage(EffectiveSerializationType(opts, msg), rspBody,
                        decompressStage(EffectiveCompressType(opts, msg), rspBodyBuf))

\* processResponseBuf: [err, rspBody, stages].
processResponseBuf(msg, rspBody, rspBodyBuf, opts) ==
    IF msg.ClientRspErr # Nil
    THEN [err |-> msg.ClientRspErr, rspBody |-> rspBody, stages |-> <<>>]
    ELSE IF Len(rspBodyBuf) = 0
    THEN [err |-> Nil, rspBody |-> rspBody, stages |-> <<>>]
    ELSE unmarshalStage(EffectiveSerializationType(opts, msg), rspBody,
                        decompressStage(EffectiveCompressType(opts, msg), rspBodyBuf))

\* Transport.RoundTrip as the environment answers it: tr.kind is "echo"
\* (the request frame comes back), "reply" (tr.frame comes back) or
\* "error" (tr.err is returned).
RoundTrip(tr, reqBuf) ==
    IF tr.kind = "error" THEN [err |-> tr.err, buf |-> <<>>]
    ELSE IF tr.kind = "echo" THEN [err |-> Nil, buf |-> reqBuf]
    ELSE [err |-> Nil, buf |-> tr.frame]

\* A slip: the two options are appended to a fresh list, not to the one
\* the Options hold.
withCallOptions_FromEmpty(opts) ==
    IF opts.EnableMultiplexed
    THEN [opts EXCEPT !.CallOptions = <<"WithMsg", "WithMultiplexed">>]
    ELSE opts

\* The call options RoundTrip receives: with multiplexing, WithMsg and
\* WithMultiplexed are appended to Options.CallOptions.
withCallOptions(opts) ==
    IF opts.EnableMultiplexed
    THEN [opts EXCEPT !.CallOptions = @ \o <<"WithMsg", "WithMultiplexed">>]
    ELSE opts

\* The message after Codec.Decode answered dec.
decodedMsg(msg, dec) ==
    IF dec.rspErr # Nil THEN [msg EXCEPT !.ClientRspErr = dec.rspErr] ELSE msg

\* callFunc after Codec.Decode answered dec: the Decode error check, then
\* processResponseBuf (pr). stages are the stages up to Decode.
responseStage(opts, msg, rspBody, stages, dec, pr) ==
    IF ~dec.ok
    THEN [err |-> NewFrameError("ClientDecodeFail"), rspBody |-> rspBody,
          msg |-> decodedMsg(msg, dec), opts |-> opts, stages |-> stages,
          sent |-> <<opts.CallOptions>>]
    ELSE [err |-> pr.err, rspBody |-> pr.rspBody, msg |-> decodedMsg(msg, dec),
          opts |-> opts, stages |-> stages \o pr.stages, sent |-> <<opts.CallOptions>>]

\* A slip: the send-only sentinel is returned like any other error.
roundTripStage_SentinelIsError(opts, msg, rspBody, stages, rt) ==
    IF rt.err # Nil
    THEN [err |-> rt.err, rspBody |-> rspBody, msg |-> msg, opts |-> opts,
          stages |-> stages, sent |-> <<opts.CallOptions>>]
    ELSE responseStage(opts, msg, rspBody, stages \o <<"Decode">>, Decode(rt.buf),
                       processResponseBuf(decodedMsg(msg, Decode(rt.buf)), rspBody,
                                          Decode(rt.buf).body, opts))

\* callFunc after Transport.RoundTrip answered rt, stages being the stages
\* up to RoundTrip: the send-only sentinel is success, another error is
\* returned, a response is decoded.
roundTripStage(opts, msg, rspBody, stages, rt) ==
    IF rt.err # Nil
    THEN [err |-> IF rt.err = ErrClientNoResponse THEN Nil ELSE rt.err,
          rspBody |-> rspBody, msg |-> msg, opts |-> opts, stages |-> stages,
          sent |-> <<opts.CallOptions>>]
    ELSE responseStage(opts, msg, rspBody, stages \o <<"Decode">>, Decode(rt.buf),
                       processResponseBuf(decodedMsg(msg, Decode(rt.buf)), rspBody,
                                          Decode(rt.buf).body, opts))

\* callFunc after prepareRequestBuf returned p.
sendStage(opts, msg, rspBody, tr, p) ==
    IF p.err # Nil
    THEN [err |-> p.err, rspBody |-> rspBody, msg |-> msg, opts |-> opts,
          stages |-> p.stages, sent |-> <<>>]
    ELSE roundTripStage(withCallOptions(opts), msg, rspBody,
                        p.stages \o <<"RoundTrip">>, RoundTrip(tr, p.buf))

\* The body of callFunc, before its deferred fixTimeout:
\* [err, rspBody, msg, opts, stages, sent].  sent lists, per RoundTrip
\* made, the call options the transport received.
callFuncBody(opts, msg, reqBody, rspBody, tr) ==
    IF ~opts.CodecSet
    THEN [err |-> NewFrameError("ClientEncodeFail"), rspBody |-> rspBody, msg |-> msg,
          opts |-> opts, stages |-> <<>>, sent |-> <<>>]
    ELSE sendStage(opts, msg, rspBody, tr, prepareRequestBuf(msg, reqBody, opts, tr.fails))

\* A slip: callFunc without its deferred fixTimeout.
deferredFixTimeout_Missing(opts, r) == r

\* The deferred err = opts.fixTimeout(err) of callFunc, r being what its
\* body returned.
deferredFixTimeout(opts, r) == [r EXCEPT !.err = ApplyFixTimeout(opts.fixTimeout, r.err)]

\* callFunc: the body, then the deferred fixTimeout.
callFunc(opts, msg, reqBody, rspBody, tr) ==
    deferredFixTimeout(opts, callFuncBody(opts, msg, reqBody, rspBody, tr))

\* ------------------------------------------------- nodes and remote address

\* registry.Node values a selector may return (the fields the client reads).
NodeA == [Address |-> "10.0.0.1:8000", Network |-> "tcp", ContainerName |-> "ca",
          SetName |-> "sa", EnvKey |-> "ea"]

NodeB == [Address |-> "10.0.0.2:8000", Network |-> "", ContainerName |-> "cb",
          SetName |-> "sb", EnvKey |-> "eb"]

NodeEmpty == [Address |-> "", Network |-> "tcp", ContainerName |-> "ce",
              SetName |-> "se", EnvKey |-> "ee"]

\* The zero Node: what a frame holds before a node is selected.
NoNode == [Address |-> "", Network |-> "", ContainerName |-> "",
           SetName |-> "", EnvKey |-> ""]

Nodes == {NodeA, NodeB, NodeEmpty}

\* A nil net.Addr interface.
NilAddr == [kind |-> "nil", str |-> ""]

\* Addresses whose host is a literal IPv4 and a literal IPv6 address.
IPv4HostPorts == {"10.0.0.1:8000", "10.0.0.2:8000"}

IPv6HostPorts == {"[::1]:8000"}

\* net.SplitHostPort succeeds and net.ParseIP accepts the host.
IsLiteralIPHostPort(address) == address \in IPv4HostPorts \cup IPv6HostPorts

\* The resolver returns no error: a unix address always resolves; a tcp or
\* udp address resolves if it is a literal IP host:port of the family the
\* network names (an address that needs a name lookup, or has no port, is
\* taken not to resolve).
Resolves(network, address) ==
    IF network = "unix" THEN TRUE
    ELSE IF network \in {"tcp", "udp"} THEN IsLiteralIPHostPort(address)
    ELSE IF network \in {"tcp6", "udp6"} THEN address \in IPv6HostPorts
    ELSE address \in IPv4HostPorts

\* net.ResolveTCPAddr / ResolveUDPAddr / ResolveUnixAddr for network. A
\* failed resolution returns a nil pointer of the concrete type, which the
\* assignment to the net.Addr variable turns into a non-nil interface whose
\* String() is "<nil>".
ResolveAddr(network, address) ==
    LET kind == IF network \in {"tcp", "tcp4", "tcp6"} THEN "TCPAddr"
                ELSE IF network \in {"udp", "udp4", "udp6"} THEN "UDPAddr"
                ELSE IF network = "unix" THEN "UnixAddr"
                ELSE "TCPAddr"
    IN  [kind |-> kind, str |-> IF Resolves(network, address) THEN address ELSE "<nil>"]

findFirstNonEmpty(a, b) == IF a # "" THEN a ELSE b

\* A slip: a remote address already set is resolved anew.
ensureMsgRemoteAddr_Overwrites(msg, network, address) ==
    IF /\ network \in {"tcp", "tcp4", "tcp6", "udp", "udp4", "udp6"}
       /\ ~IsLiteralIPHostPort(address)
    THEN msg
    ELSE [msg EXCEPT !.RemoteAddr = ResolveAddr(network, address)]

ensureMsgRemoteAddr(msg, network, address) ==
    IF msg.RemoteAddr # NilAddr THEN msg
    ELSE IF /\ network \in {"tcp", "tcp4", "tcp6", "udp", "udp4", "udp6"}
            /\ ~IsLiteralIPHostPort(address)
    THEN msg
    ELSE [msg EXCEPT !.RemoteAddr = ResolveAddr(network, address)]

\* ------------------------------------------------------------ context

NoDeadline == [has |-> FALSE, at |-> 0]

DeadlineAt(d) == [has |-> TRUE, at |-> d]

Min(a, b) == IF a <= b THEN a ELSE b

\* context.WithTimeout(ctx, timeout) at instant t: the earlier of the
\* parent's deadline and t + timeout.
WithTimeout(deadline, t, timeout) ==
    IF deadline.has THEN DeadlineAt(Min(deadline.at, t + timeout))
    ELSE DeadlineAt(t + timeout)

\* ctx.Err() at instant t, given what it was at the last look: once set it
\* stays; otherwise the deadline may have passed and the caller may have
\* cancelled (cancel), whichever came first.
CtxErrAt(c, t, cancel) ==
    IF c.err # "nil" THEN {c.err}
    ELSE (IF c.deadline.has /\ t >= c.deadline.at THEN {"DeadlineExceeded"} ELSE {})
         \cup (IF cancel THEN {"Canceled"} ELSE {})
         \cup (IF ~cancel /\ ~(c.deadline.has /\ t >= c.deadline.at) THEN {"nil"} ELSE {})

\* -------------------------------------------------------------- the state

VARIABLES
    pc,        \* where Invoke is: "getOptions", "timeout", "filters", "chain", "done"
    now,       \* the clock
    ctx,       \* the call's context: [fullLink, deadline, err, immutable]
    opts,      \* the Options built by getOptions (the pointer held by the context)
    msg,       \* the codec.Msg of the call
    reqBody,   \* the request body
    rspBody,   \* the response body the caller reads after the call
    chain,     \* the filter.ClientChain fixFilters returned
    stack,     \* the active filters, outermost first
    ret,       \* the error the last returned filter or callFunc gave
    result,    \* the error Invoke returned
    env,       \* what the environment may do: [transports, selects, delay, cancel]
    given,     \* the call as the caller made it: [Filters, rspBody]
    clk,       \* instants of Invoke's time reads: [t0, t1, t2]
    reports,   \* every Selector.Report call: [node, cost, err]
    selects,   \* every Selector.Select call: the select options it received
    calls,     \* every callFunc execution
    passes,    \* every finished pass through selectorFilter
    nodeInfo,  \* what Options.Node.set published: [set, node, addr, cost]
    heap,      \* the backing arrays of the slices of concurrent attempts
    shared,    \* the Options concurrent attempts start from, as slice headers
    att,       \* each concurrent attempt: [pc, opts]
    writes     \* every element an append wrote: [by, arr, idx]

callVars == <<pc, now, ctx, opts, msg, reqBody, rspBody, chain, stack, ret, result,
              env, given, clk, reports, selects, calls, passes, nodeInfo>>

concVars == <<heap, shared, att, writes>>

vars == <<pc, now, ctx, opts, msg, reqBody, rspBody, chain, stack, ret, result,
          env, given, clk, reports, selects, calls, passes, nodeInfo,
          heap, shared, att, writes>>

\* The interceptors a user may install. "pass" invokes next once and returns
\* its error; "short" returns a ClientTimeout of its own without invoking
\* next; "retry" invokes next again, up to MaxNextCalls times, while next
\* fails. "sel" is the selector filter itself.
UserFilters == {"pass", "short", "retry"}

\* The answers of Transport.RoundTrip in a run that studies timing and the
\* chain, and in a run that studies the bytes.
TimingTransports ==
    { [kind |-> "echo", frame |-> <<>>, err |-> Nil, fails |-> {}] }
    \cup { [kind |-> "error", frame |-> <<>>, err |-> e, fails |-> {}] :
           e \in {ErrClientNoResponse, NewFrameError("ClientTimeout"),
                  NewFrameError("ClientConnectFail"), BusinessError("biz")} }

\* Response frames a server may send: an empty success, a response error
\* without and with body bytes, a frame with a bad head, a response error
\* in a frame of the wrong length, and bodies that cannot be decompressed
\* or unmarshalled.
ReplyFrames ==
    { <<77, 0, 0>>, <<77, 5, 0>>, <<77, 5, 1, 11>>, <<1>>, <<77, 5, 9, 11>>,
      <<77, 0, 1, 50>>, <<77, 0, 2, 99, 50>> }

ByteTransports ==
    { [kind |-> "echo", frame |-> <<>>, err |-> Nil, fails |-> f] :
      f \in {{}, {"Compress"}, {"Encode"}} }
    \cup { [kind |-> "reply", frame |-> fr, err |-> Nil, fails |-> {}] : fr \in ReplyFrames }
    \cup { [kind |-> "error", frame |-> <<>>, err |-> e, fails |-> {}] :
           e \in {ErrClientNoResponse, NewFrameError("ClientNetErr"), PlainError} }

NoRequestTimeout == [set |-> FALSE, d |-> 0]

Msg0 == [SerializationType |-> SerializationTypePB, CompressType |-> CompressTypeNoop,
         RequestTimeout |-> NoRequestTimeout, RemoteAddr |-> NilAddr,
         ClientRspErr |-> Nil, EnvTransfer |-> "",
         CalleeContainerName |-> "", CalleeSetName |-> "",
         CalleeServiceName |-> "", CalleeMethod |-> "", CallerServiceName |-> "",
         ClientReqHead |-> "", ClientRspHead |-> "", CallType |-> "unary"]

Opts0 == [Timeout |-> 0, DisableFilter |-> FALSE, Filters |-> <<>>, FilterNames |-> <<>>,
          selectorFilterPosFixed |-> FALSE, fixTimeout |-> "identity",
          CodecSet |-> TRUE, EnableMultiplexed |-> FALSE,
          SerializationType |-> InvalidType, CompressType |-> InvalidType,
          CurrentSerializationType |-> InvalidType, CurrentCompressType |-> InvalidType,
          SelectOptions |-> <<>>, CallOptions |-> <<>>,
          shouldErrReportToSelector |-> "never", Network |-> "tcp",
          DisableServiceRouter |-> FALSE,
          ServiceName |-> "", CalleeMethod |-> "", CallerServiceName |-> "",
          ReqHead |-> "", RspHead |-> "", CallType |-> "unary"]

NoNodeInfo == [set |-> FALSE, node |-> NoNode, addr |-> "", cost |-> 0]

\* The attempts of a retry plugin, which run the rest of the chain
\* concurrently.
Attempts == {1, 2}

\* A Go slice is a header [arr, len, cap] over the backing array heap[arr];
\* an Options value is modelled here by the headers of its two slices.
NoSlice == [arr |-> 0, len |-> 0, cap |-> 0]

NoSlices == [SelectOptions |-> NoSlice, CallOptions |-> NoSlice]

\* No concurrent attempts: the call runs on one goroutine.
ConcIdle ==
    /\ heap = <<>>
    /\ shared = NoSlices
    /\ att = [a \in Attempts |-> [pc |-> "idle", opts |-> NoSlices]]
    /\ writes = {}

\* What every call starts from, whatever its inputs.
InitCall ==
    /\ now = 0
    /\ chain = <<>>
    /\ stack = <<>>
    /\ ret = Nil
    /\ result = Nil
    /\ clk = [t0 |-> 0, t1 |-> 0, t2 |-> 0]
    /\ reports = <<>>
    /\ selects = <<>>
    /\ calls = <<>>
    /\ passes = <<>>
    /\ nodeInfo = NoNodeInfo

InitCommon == InitCall /\ ConcIdle

\* The filter lists a configuration produces: the selector filter is in the
\* list exactly when its position was pinned.
ConfiguredFilters ==
    { [fs |-> <<>>, fixed |-> FALSE] }
    \cup { [fs |-> <<f>>, fixed |-> FALSE] : f \in UserFilters }
    \cup { [fs |-> <<"sel", "pass">>, fixed |-> TRUE],
           [fs |-> <<"pass", "sel">>, fixed |-> TRUE] }

\* What Selector.Select may answer: an error, or a node.
SelectOutcomes ==
    {[ok |-> FALSE, node |-> NoNode]} \cup {[ok |-> TRUE, node |-> n] : n \in Nodes}

\* Calls that differ in deadline, timeout, filters and report predicate.
Init ==
    /\ InitCommon
    /\ pc = "getOptions"
    /\ env = [transports |-> TimingTransports, selects |-> SelectOutcomes,
              delay |-> MaxDelay, cancel |-> {TRUE, FALSE}]
    /\ \E d \in {NoDeadline} \cup {DeadlineAt(t) : t \in 1..MaxDeadline} :
           ctx = [fullLink |-> d, deadline |-> d, err |-> "nil", immutable |-> FALSE]
    /\ \E T \in {0, 2}, c \in ConfiguredFilters, dis \in BOOLEAN,
          pred \in {"never", "onError"} :
           /\ opts = [Opts0 EXCEPT !.Timeout = T, !.Filters = c.fs, !.FilterNames = c.fs,
                                   !.selectorFilterPosFixed = c.fixed,
                                   !.DisableFilter = dis,
                                   !.shouldErrReportToSelector = pred]
           /\ given = [Filters |-> c.fs, rspBody |-> <<>>]
    /\ msg = Msg0
    /\ reqBody = <<1>>
    /\ rspBody = <<>>

\* Calls that differ in codec, serialization and compress types, bodies,
\* multiplexing and options immutability; the transport answers with every
\* kind of frame, at once.
InitPipe ==
    /\ InitCommon
    /\ pc = "getOptions"
    /\ env = [transports |-> ByteTransports,
              selects |-> {[ok |-> FALSE, node |-> NoNode], [ok |-> TRUE, node |-> NodeA]},
              delay |-> 0, cancel |-> {FALSE}]
    /\ \E imm \in BOOLEAN :
           ctx = [fullLink |-> NoDeadline, deadline |-> NoDeadline, err |-> "nil",
                  immutable |-> imm]
    /\ \E fs \in {<<>>, <<"pass">>}, codecSet \in BOOLEAN, mux \in BOOLEAN,
          st \in {InvalidType, SerializationTypeJSON},
          cst \in {InvalidType, SerializationTypeJSON},
          ct \in {InvalidType, CompressTypeGzip},
          cct \in {InvalidType, CompressTypeNoop, CompressTypeGzip},
          rb \in {<<>>, <<2>>} :
           /\ opts = [Opts0 EXCEPT !.Filters = fs, !.FilterNames = fs,
                                   !.CodecSet = codecSet, !.EnableMultiplexed = mux,
                                   !.SerializationType = st, !.CompressType = ct,
                                   !.CurrentSerializationType = cst,
                                   !.CurrentCompressType = cct]
           /\ given = [Filters |-> fs, rspBody |-> rb]
           /\ rspBody = rb
    /\ \E mst \in {InvalidType, SerializationTypePB}, mct \in {InvalidType, CompressTypeNoop} :
           msg = [Msg0 EXCEPT !.SerializationType = mst, !.CompressType = mct]
    /\ reqBody \in {<<>>, <<1, 2>>, <<0>>}

\* The longest filter list a caller passes to fixFilters.
MaxFilters == 3

\* The lists over S of length n.
ListsOfLen(S, n) == [1..n -> S]

\* fixFilters on every input: any user list, which may hold the selector
\* filter anywhere, with every DisableFilter and selectorFilterPosFixed.
InitFilters ==
    /\ InitCommon
    /\ pc = "filters"
    /\ env = [transports |-> TimingTransports, selects |-> SelectOutcomes,
              delay |-> 0, cancel |-> {FALSE}]
    /\ ctx = [fullLink |-> NoDeadline, deadline |-> NoDeadline, err |-> "nil",
              immutable |-> FALSE]
    /\ \E n \in 0..MaxFilters :
       \E fs \in ListsOfLen(UserFilters \cup {"sel"}, n), dis \in BOOLEAN, fixed \in BOOLEAN :
           /\ opts = [Opts0 EXCEPT !.Filters = fs, !.FilterNames = fs,
                                   !.selectorFilterPosFixed = fixed,
                                   !.DisableFilter = dis]
           /\ given = [Filters |-> fs, rspBody |-> <<>>]
    /\ msg = Msg0
    /\ reqBody = <<1>>
    /\ rspBody = <<>>

\* ------------------------------------------------------------------ Invoke

\* A layer of options (the per-callee baseline, or the call-site options):
\* per field, <<>> if the layer has no option for it, else <<its value>>.
\* An empty string stands for an unset name and for a nil head.
NoOptions ==
    [ServiceName |-> <<>>, CalleeMethod |-> <<>>, CallerServiceName |-> <<>>,
     SerializationType |-> <<>>, CompressType |-> <<>>, ReqHead |-> <<>>,
     RspHead |-> <<>>, CallType |-> <<>>]

\* The options of a layer applied to o, each WithX(v) storing v.
applyOptions(o, layer) ==
    [o EXCEPT
       !.ServiceName = IF layer.ServiceName # <<>> THEN layer.ServiceName[1] ELSE @,
       !.CalleeMethod = IF layer.CalleeMethod # <<>> THEN layer.CalleeMethod[1] ELSE @,
       !.CallerServiceName =
           IF layer.CallerServiceName # <<>> THEN layer.CallerServiceName[1] ELSE @,
       !.SerializationType =
           IF layer.SerializationType # <<>> THEN layer.SerializationType[1] ELSE @,
       !.CompressType = IF layer.CompressType # <<>> THEN layer.CompressType[1] ELSE @,
       !.ReqHead = IF layer.ReqHead # <<>> THEN layer.ReqHead[1] ELSE @,
       !.RspHead = IF layer.RspHead # <<>> THEN layer.RspHead[1] ELSE @,
       !.CallType = IF layer.CallType # <<>> THEN layer.CallType[1] ELSE @]

\* A slip: the baseline is applied over the call-site options.
getOptions_BaselineLast(defaults, baseline, callSite) ==
    applyOptions(applyOptions(defaults, callSite), baseline)

\* getOptions: the baseline registered for the callee, then the call-site
\* options over it.
getOptions(defaults, baseline, callSite) ==
    applyOptions(applyOptions(defaults, baseline), callSite)

\* updateMsg: the options' fields pushed into the message.
updateMsg(m, o) ==
    [m EXCEPT
       !.CalleeServiceName = IF o.ServiceName # "" THEN o.ServiceName ELSE @,
       !.CalleeMethod = IF o.CalleeMethod # "" THEN o.CalleeMethod ELSE @,
       !.CallerServiceName = IF o.CallerServiceName # "" THEN o.CallerServiceName ELSE @,
       !.SerializationType =
           IF IsValidSerializationType(o.SerializationType) THEN o.SerializationType ELSE @,
       !.CompressType =
           IF IsValidCompressType(o.CompressType) /\ o.CompressType # CompressTypeNoop
           THEN o.CompressType ELSE @,
       !.ClientReqHead = IF o.ReqHead # "" THEN o.ReqHead ELSE @,
       !.ClientRspHead = IF o.RspHead # "" THEN o.RspHead ELSE @,
       !.CallType = o.CallType]

\* Invoke up to updateMsg: getOptions fails with ClientRouteErr when the
\* target does not parse.
InvokeGetOptions ==
    /\ pc = "getOptions"
    /\ \E targetOk \in BOOLEAN :
         IF targetOk
         THEN /\ msg' = updateMsg(msg, opts)
              /\ pc' = "timeout"
              /\ result' = result
         ELSE /\ msg' = msg
              /\ pc' = "done"
              /\ result' = NewFrameError("ClientRouteErr")
    /\ UNCHANGED <<now, ctx, opts, reqBody, rspBody, chain, stack, ret, env, given, clk,
                   reports, selects, calls, passes, nodeInfo>>
    /\ UNCHANGED concVars

\* A slip: the deadline itself is written, not the time left until it.
RequestTimeoutAt_Absolute(deadline, t1, old) ==
    IF deadline.has THEN [set |-> TRUE, d |-> deadline.at] ELSE old

\* The request timeout Invoke writes: the context's deadline minus the
\* instant t1 at which time.Now() is read.
RequestTimeoutAt(deadline, t1, old) ==
    IF deadline.has THEN [set |-> TRUE, d |-> deadline.at - t1] ELSE old

\* A slip: the fixer is installed only when there is no local timeout.
InstallsFullLink_OnlyWithoutTimeout(fullLink, timeout, t2) ==
    fullLink.has /\ timeout <= 0

\* Whether Invoke installs mayConvert2FullLinkTimeout, time.Until being
\* read at instant t2.
InstallsFullLink(fullLink, timeout, t2) ==
    fullLink.has /\ (timeout <= 0 \/ fullLink.at - t2 < timeout)

\* The timeout composition of Invoke. Time passes between the derivation of
\* the child context (t0), time.Now() (t1) and time.Until (t2).
InvokeTimeout ==
    /\ pc = "timeout"
    /\ \E d1 \in {0, env.delay}, d2 \in {0, env.delay} :
         LET t0 == now
             t1 == t0 + d1
             t2 == t1 + d2
             fullLinkDeadline == ctx.deadline
             deadline == IF opts.Timeout > 0
                         THEN WithTimeout(ctx.deadline, t0, opts.Timeout)
                         ELSE ctx.deadline
         IN  /\ ctx' = [ctx EXCEPT !.deadline = deadline]
             /\ msg' = [msg EXCEPT !.RequestTimeout = RequestTimeoutAt(deadline, t1, @)]
             /\ opts' = IF InstallsFullLink(fullLinkDeadline, opts.Timeout, t2)
                        THEN [opts EXCEPT !.fixTimeout = "fullLink"]
                        ELSE opts
             /\ clk' = [t0 |-> t0, t1 |-> t1, t2 |-> t2]
             /\ now' = t2
    /\ pc' = "filters"
    /\ UNCHANGED <<reqBody, rspBody, chain, stack, ret, result, env, given,
                   reports, selects, calls, passes, nodeInfo>>
    /\ UNCHANGED concVars

\* A slip: the selector filter is appended whether pinned or not.
fixFilters_AlwaysAppends(o) ==
    IF o.DisableFilter \/ Len(o.Filters) = 0
    THEN [chain |-> <<"sel">>,
          opts |-> [o EXCEPT !.FilterNames = Append(@, "selector")]]
    ELSE [chain |-> Append(o.Filters, "sel"),
          opts |-> [o EXCEPT !.Filters = Append(@, "sel"),
                             !.FilterNames = Append(@, "selector")]]

\* fixFilters: [chain, opts], the effective chain and the options as the
\* appends leave them.
fixFilters(o) ==
    IF o.DisableFilter \/ Len(o.Filters) = 0
    THEN [chain |-> <<"sel">>,
          opts |-> [o EXCEPT !.FilterNames = Append(@, "selector")]]
    ELSE IF ~o.selectorFilterPosFixed
    THEN [chain |-> Append(o.Filters, "sel"),
          opts |-> [o EXCEPT !.Filters = Append(@, "sel"),
                             !.FilterNames = Append(@, "selector")]]
    ELSE [chain |-> o.Filters, opts |-> o]

\* A filter of the chain c about to run; position Len(c) + 1 is the
\* terminal handler callFunc.
NewFrame(c, i) ==
    [kind |-> IF i > Len(c) THEN "call" ELSE c[i], i |-> i, phase |-> "enter",
     calls |-> 0, node |-> NoNode, begin |-> 0, nextAt |-> 0, clone |-> <<>>,
     callsAt |-> 0]

\* Invoke resolves the filters and enters the chain.
InvokeFilters ==
    /\ pc = "filters"
    /\ LET f == fixFilters(opts)
       IN  /\ opts' = f.opts
           /\ chain' = f.chain
           /\ stack' = <<NewFrame(f.chain, 1)>>
    /\ pc' = "chain"
    /\ UNCHANGED <<now, ctx, msg, reqBody, rspBody, ret, result, env, given, clk,
                   reports, selects, calls, passes, nodeInfo>>
    /\ UNCHANGED concVars

\* Invoke returns what the chain returned.
InvokeResult(err) == err

InvokeReturn ==
    /\ pc = "chain"
    /\ stack = <<>>
    /\ result' = InvokeResult(ret)
    /\ pc' = "done"
    /\ UNCHANGED <<now, ctx, opts, msg, reqBody, rspBody, chain, stack, ret, env, given, clk,
                   reports, selects, calls, passes, nodeInfo>>
    /\ UNCHANGED concVars

\* ------------------------------------------------------- the filter chain

Top == stack[Len(stack)]

Pop(stk) == SubSeq(stk, 1, Len(stk) - 1)

\* The frame on top returns: its caller, if any, resumes after its next.
Returned(stk) ==
    LET p == Pop(stk)
    IN  IF p = <<>> THEN p ELSE [p EXCEPT ![Len(p)].phase = "back"]

\* The frame on top invokes next.
Called(stk) ==
    LET n == Len(stk)
    IN  Append([stk EXCEPT ![n].phase = "wait", ![n].calls = @ + 1],
               NewFrame(chain, stk[n].i + 1))

\* The frames that installed a clone of the options on the context.
Cloners(stk) == {j \in 1..Len(stk) : stk[j].clone # <<>>}

MaxOf(S) == CHOOSE x \in S : \A y \in S : y <= x

\* OptionsFromContext(ctx) for the frame on top of stk.
OptionsFromContext(stk, o) ==
    IF Cloners(stk) = {} THEN o ELSE stk[MaxOf(Cloners(stk))].clone[1]

\* A write through the options pointer of the context: [stack, opts].
WriteOptions(stk, o, v) ==
    IF Cloners(stk) = {} THEN [stack |-> stk, opts |-> v]
    ELSE [stack |-> [stk EXCEPT ![MaxOf(Cloners(stk))].clone = <<v>>], opts |-> o]

\* A user interceptor starts: "short" returns its own ClientTimeout, the
\* others invoke next.
UserFilterEnter ==
    /\ pc = "chain"
    /\ stack # <<>>
    /\ Top.kind \in UserFilters
    /\ Top.phase = "enter"
    /\ IF Top.kind = "short"
       THEN /\ stack' = Returned(stack)
            /\ ret' = NewFrameError("ClientTimeout")
       ELSE /\ stack' = Called(stack)
            /\ ret' = ret
    /\ UNCHANGED <<pc, now, ctx, opts, msg, reqBody, rspBody, chain, result, env, given, clk,
                   reports, selects, calls, passes, nodeInfo>>
    /\ UNCHANGED concVars

\* next has returned to a user interceptor: "retry" invokes it again after
\* an error, the others return next's error.
UserFilterBack ==
    /\ pc = "chain"
    /\ stack # <<>>
    /\ Top.kind \in UserFilters
    /\ Top.phase = "back"
    /\ IF Top.kind = "retry" /\ ret # Nil /\ Top.calls < MaxNextCalls
       THEN stack' = Called(stack)
       ELSE stack' = Returned(stack)
    /\ UNCHANGED <<pc, now, ctx, opts, msg, reqBody, rspBody, chain, ret, result, env, given,
                   clk, reports, selects, calls, passes, nodeInfo>>
    /\ UNCHANGED concVars

\* ------------------------------------------------------ the selector filter

\* A slip: a node with an empty address is accepted.
getNode_AcceptsEmptyAddress(o, out) ==
    IF ~out.ok THEN [err |-> NewFrameError("ClientRouteErr"), node |-> NoNode]
    ELSE [err |-> Nil, node |-> out.node]

getNode(o, out) ==
    IF ~out.ok THEN [err |-> NewFrameError("ClientRouteErr"), node |-> NoNode]
    ELSE IF out.node.Address = ""
    THEN [err |-> NewFrameError("ClientRouteErr"), node |-> NoNode]
    ELSE [err |-> Nil, node |-> out.node]

\* Options.LoadNodeConfig: the node's network, when it names one.
LoadNodeConfig(o, node) == [o EXCEPT !.Network = findFirstNonEmpty(node.Network, @)]

\* A slip: the context is not looked at after Select.
selectNode_WithoutContextCheck(o, m, out, ctxErr) ==
    LET o1 == [o EXCEPT !.SelectOptions = Append(@, "WithContext")]
        g == getNode(o1, out)
        o2 == LoadNodeConfig(o1, g.node)
        m1 == [m EXCEPT !.CalleeContainerName = g.node.ContainerName,
                        !.CalleeSetName = g.node.SetName]
        m2 == IF m1.EnvTransfer = "" THEN [m1 EXCEPT !.EnvTransfer = g.node.EnvKey] ELSE m1
        m3 == IF o2.DisableServiceRouter THEN [m2 EXCEPT !.EnvTransfer = ""] ELSE m2
    IN  IF g.err # Nil
        THEN [err |-> g.err, node |-> NoNode, opts |-> o1, msg |-> m]
        ELSE [err |-> Nil, node |-> g.node, opts |-> o2, msg |-> m3]

\* selectNode, Select answering out and ctx.Err() being ctxErr after it:
\* [err, node, opts, msg].
selectNode(o, m, out, ctxErr) ==
    LET o1 == [o EXCEPT !.SelectOptions = Append(@, "WithContext")]
        g == getNode(o1, out)
        o2 == LoadNodeConfig(o1, g.node)
        m1 == [m EXCEPT !.CalleeContainerName = g.node.ContainerName,
                        !.CalleeSetName = g.node.SetName]
        m2 == IF m1.EnvTransfer = "" THEN [m1 EXCEPT !.EnvTransfer = g.node.EnvKey] ELSE m1
        m3 == IF o2.DisableServiceRouter THEN [m2 EXCEPT !.EnvTransfer = ""] ELSE m2
    IN  IF g.err # Nil
        THEN [err |-> g.err, node |-> NoNode, opts |-> o1, msg |-> m]
        ELSE IF ctxErr = "Canceled"
        THEN [err |-> NewFrameError("ClientCanceled"), node |-> NoNode, opts |-> o2, msg |-> m3]
        ELSE IF ctxErr = "DeadlineExceeded"
        THEN [err |-> NewFrameError("ClientTimeout"), node |-> NoNode, opts |-> o2, msg |-> m3]
        ELSE [err |-> Nil, node |-> g.node, opts |-> o2, msg |-> m3]

\* The error selectorFilter returns when selectNode failed.
SelectFailure(o, err) == ApplyFixTimeout(o.fixTimeout, err)

\* A slip: the cost is measured from the entry of the filter, so that it
\* includes the time Select took.
CostBegin_FromEntry(entered, selected) == entered

\* begin, the start of the cost: the instant after selectNode (entered is
\* the instant the filter was entered, selected the instant Select and the
\* context check were over).
CostBegin(entered, selected) == selected

\* selectorFilter up to its call of next.
SelectorFilterEnter ==
    /\ pc = "chain"
    /\ stack # <<>>
    /\ Top.kind = "sel"
    /\ Top.phase = "enter"
    /\ \E out \in env.selects, d \in {0, env.delay}, cancel \in env.cancel :
       \E e \in CtxErrAt(ctx, now + d, cancel) :
         LET n == Len(stack)
             o0 == OptionsFromContext(stack, opts)
             stk1 == IF ctx.immutable THEN [stack EXCEPT ![n].clone = <<o0>>] ELSE stack
             sn == selectNode(o0, msg, out, e)
             w == WriteOptions(stk1, opts, sn.opts)
             addrMsg == ensureMsgRemoteAddr(
                            sn.msg, findFirstNonEmpty(sn.node.Network, sn.opts.Network),
                            sn.node.Address)
         IN  /\ now' = now + d
             /\ ctx' = [ctx EXCEPT !.err = e]
             /\ opts' = w.opts
             /\ selects' = Append(selects, sn.opts.SelectOptions)
             /\ IF sn.err # Nil
                THEN /\ msg' = sn.msg
                     /\ ret' = SelectFailure(sn.opts, sn.err)
                     /\ stack' = Returned(w.stack)
                     /\ passes' = Append(passes,
                            [selected |-> FALSE, out |-> out, node |-> NoNode,
                             err |-> SelectFailure(sn.opts, sn.err), nextErr |-> Nil,
                             begin |-> 0, nextAt |-> 0, end |-> now + d,
                             reported |-> <<>>, callsAt |-> Len(calls), ncalls |-> 0])
                ELSE /\ msg' = addrMsg
                     /\ ret' = ret
                     /\ stack' = Called([w.stack EXCEPT
                                            ![n].node = sn.node,
                                            ![n].begin = CostBegin(now, now + d),
                                            ![n].nextAt = now + d,
                                            ![n].callsAt = Len(calls)])
                     /\ passes' = passes
    /\ UNCHANGED <<pc, reqBody, rspBody, chain, result, env, given, clk, reports, calls, nodeInfo>>
    /\ UNCHANGED concVars

\* A slip: a failed connection is not among the reported kinds.
IsNetError_WithoutConnectFail(err) ==
    /\ err.type = "framework"
    /\ err.code \in {"ClientTimeout", "ClientNetErr"}

\* The transport and network kinds the selector is told about.
IsNetError(err) ==
    /\ err.type = "framework"
    /\ err.code \in {"ClientConnectFail", "ClientTimeout", "ClientNetErr"}

\* The report after next returned err at cost: [arg, err], the error
\* Selector.Report receives and the error the filter returns (the network
\* kinds have the cost appended to their message in place).
ReportOf(o, err, cost) ==
    IF IsNetError(err)
    THEN [arg |-> [err EXCEPT !.costs = Append(@, cost)],
          err |-> [err EXCEPT !.costs = Append(@, cost)]]
    ELSE IF ShouldErrReportToSelector(o.shouldErrReportToSelector, err)
    THEN [arg |-> err, err |-> err]
    ELSE [arg |-> Nil, err |-> err]

\* The address Options.Node.set publishes.
PublishedAddr(m, node) ==
    IF m.RemoteAddr # NilAddr THEN m.RemoteAddr.str ELSE node.Address

\* selectorFilter after next has returned.
SelectorFilterExit ==
    /\ pc = "chain"
    /\ stack # <<>>
    /\ Top.kind = "sel"
    /\ Top.phase = "back"
    /\ LET f == Top
           o == OptionsFromContext(stack, opts)
           cost == now - f.begin
           rep == ReportOf(o, ret, cost)
           r == [node |-> f.node, cost |-> cost, err |-> rep.arg]
       IN  /\ reports' = Append(reports, r)
           /\ nodeInfo' = [set |-> TRUE, node |-> f.node,
                           addr |-> PublishedAddr(msg, f.node), cost |-> cost]
           /\ passes' = Append(passes,
                  [selected |-> TRUE, out |-> [ok |-> TRUE, node |-> f.node],
                   node |-> f.node, err |-> rep.err, nextErr |-> ret,
                   begin |-> f.begin, nextAt |-> f.nextAt, end |-> now,
                   reported |-> <<r>>, callsAt |-> f.callsAt,
                   ncalls |-> Len(calls) - f.callsAt])
           /\ ret' = rep.err
           /\ stack' = Returned(stack)
    /\ UNCHANGED <<pc, now, ctx, opts, msg, reqBody, rspBody, chain, result, env, given, clk,
                   selects, calls>>
    /\ UNCHANGED concVars

\* --------------------------------------------------------------- callFunc

\* The terminal handler: the whole of callFunc, the transport answering tr
\* after d clock units.
CallFunc ==
    /\ pc = "chain"
    /\ stack # <<>>
    /\ Top.kind = "call"
    /\ Top.phase = "enter"
    /\ \E tr \in env.transports, d \in {0, env.delay} :
         LET o == OptionsFromContext(stack, opts)
             r == callFunc(o, msg, reqBody, rspBody, tr)
             w == WriteOptions(stack, opts, r.opts)
         IN  /\ msg' = r.msg
             /\ rspBody' = r.rspBody
             /\ opts' = w.opts
             /\ stack' = Returned(w.stack)
             /\ ret' = r.err
             /\ now' = now + d
             /\ calls' = Append(calls,
                    [stages |-> r.stages, sent |-> r.sent, err |-> r.err, tr |-> tr,
                     fix |-> o.fixTimeout, rspErr |-> r.msg.ClientRspErr,
                     rsp |-> IF \E k \in 1..Len(r.stages) : r.stages[k] = "Decode"
                             THEN <<RoundTrip(tr, prepareRequestBuf(msg, reqBody, o,
                                                                    tr.fails).buf).buf>>
                             ELSE <<>>,
                     before |-> rspBody, after |-> r.rspBody,
                     ser |-> <<o.CurrentSerializationType, msg.SerializationType>>,
                     comp |-> <<o.CurrentCompressType, msg.CompressType>>])
    /\ UNCHANGED <<pc, ctx, reqBody, chain, result, env, given, clk, reports, selects,
                   passes, nodeInfo>>
    /\ UNCHANGED concVars

\* ------------------------------------------------------ the specifications

Next ==
    \/ InvokeGetOptions
    \/ InvokeTimeout
    \/ InvokeFilters
    \/ InvokeReturn
    \/ UserFilterEnter
    \/ UserFilterBack
    \/ SelectorFilterEnter
    \/ SelectorFilterExit
    \/ CallFunc

Spec == Init /\ [][Next]_vars

\* The same calls, studied for their bytes.
SpecPipe == InitPipe /\ [][Next]_vars

\* fixFilters alone, on every input.
SpecFilters == InitFilters /\ [][InvokeFilters]_vars

\* ------------------------------------------------------ the report alone

\* What Transport.RoundTrip answers in a run that studies the report: a
\* success, the three network kinds, another framework error, a business
\* error that carries the code of a timeout, and an error that is no
\* errs.Error.
ReportTransports ==
    { [kind |-> "echo", frame |-> <<>>, err |-> Nil, fails |-> {}] }
    \cup { [kind |-> "error", frame |-> <<>>, err |-> e, fails |-> {}] :
           e \in {NewFrameError("ClientTimeout"), NewFrameError("ClientConnectFail"),
                  NewFrameError("ClientNetErr"), NewFrameError("ClientCanceled"),
                  BusinessError("ClientTimeout"), PlainError} }

\* Calls without deadline or timeout, under every report predicate, the
\* selector always answering a node.
InitReport ==
    /\ InitCommon
    /\ pc = "getOptions"
    /\ env = [transports |-> ReportTransports,
              selects |-> {[ok |-> TRUE, node |-> NodeA]},
              delay |-> MaxDelay, cancel |-> {FALSE}]
    /\ ctx = [fullLink |-> NoDeadline, deadline |-> NoDeadline, err |-> "nil",
              immutable |-> FALSE]
    /\ \E fs \in {<<>>, <<"pass">>}, pred \in {"never", "onError", "always"},
          codecSet \in BOOLEAN :
           /\ opts = [Opts0 EXCEPT !.Filters = fs, !.FilterNames = fs,
                                   !.CodecSet = codecSet,
                                   !.shouldErrReportToSelector = pred]
           /\ given = [Filters |-> fs, rspBody |-> <<>>]
    /\ msg = Msg0
    /\ reqBody = <<1>>
    /\ rspBody = <<>>

\* The same calls, studied for what the selector is reported.
SpecReport == InitReport /\ [][Next]_vars

\* --------------------------------------------------- sequential re-entry

\* What Transport.RoundTrip answers to the passes of a retrying
\* interceptor: the request back, or a network error.
RetryTransports ==
    { [kind |-> "echo", frame |-> <<>>, err |-> Nil, fails |-> {}],
      [kind |-> "error", frame |-> <<>>, err |-> NewFrameError("ClientNetErr"),
       fails |-> {}] }

\* Calls through an interceptor that invokes next again after an error,
\* the context not marked options-immutable, with and without multiplexing.
InitRetry ==
    /\ InitCommon
    /\ pc = "getOptions"
    /\ env = [transports |-> RetryTransports, selects |-> SelectOutcomes,
              delay |-> 0, cancel |-> {FALSE}]
    /\ ctx = [fullLink |-> NoDeadline, deadline |-> NoDeadline, err |-> "nil",
              immutable |-> FALSE]
    /\ \E mux \in BOOLEAN, pred \in {"never", "onError"} :
           opts = [Opts0 EXCEPT !.Filters = <<"retry">>, !.FilterNames = <<"retry">>,
                                !.EnableMultiplexed = mux,
                                !.shouldErrReportToSelector = pred]
    /\ given = [Filters |-> <<"retry">>, rspBody |-> <<>>]
    /\ msg = Msg0
    /\ reqBody \in {<<>>, <<1>>, <<1, 2>>}
    /\ rspBody = <<>>

\* The same calls, studied for the options each pass hands on.
SpecRetry == InitRetry /\ [][Next]_vars

\* --------------------------------------------------- the option layers alone

\* getOptions and updateMsg on baselines and call-site options that have, or
\* have not, an option for a field, over messages with prior values.
InitMerge ==
    /\ InitCommon
    /\ pc = "merge"
    /\ env = [transports |-> TimingTransports, selects |-> SelectOutcomes,
              delay |-> 0, cancel |-> {FALSE}]
    /\ ctx = [fullLink |-> NoDeadline, deadline |-> NoDeadline, err |-> "nil",
              immutable |-> FALSE]
    /\ opts = Opts0
    /\ \E bName \in {<<>>, <<"svcBase">>}, sName \in {<<>>, <<"">>, <<"svcSite">>},
          sMethod \in {<<>>, <<"methodSite">>},
          bSer \in {<<>>, <<SerializationTypePB>>},
          sSer \in {<<>>, <<InvalidType>>, <<SerializationTypeJSON>>},
          bComp \in {<<>>, <<CompressTypeGzip>>},
          sComp \in {<<>>, <<CompressTypeNoop>>},
          sCall \in {<<>>, <<"sendonly">>},
          mComp \in {CompressTypeNoop, CompressTypeGzip},
          mCall \in {"unary", "sendonly"} :
           /\ msg = [Msg0 EXCEPT !.CalleeServiceName = "svcMsg", !.CalleeMethod = "methodMsg",
                                 !.CallerServiceName = "callerMsg",
                                 !.ClientReqHead = "reqHeadMsg",
                                 !.CompressType = mComp, !.CallType = mCall]
           /\ given = [Filters |-> <<>>, rspBody |-> <<>>,
                       baseline |-> [NoOptions EXCEPT !.ServiceName = bName,
                                                      !.SerializationType = bSer,
                                                      !.CompressType = bComp,
                                                      !.RspHead = <<"rspHeadBase">>],
                       callSite |-> [NoOptions EXCEPT !.ServiceName = sName,
                                                      !.CalleeMethod = sMethod,
                                                      !.CallerServiceName = <<"callerSite">>,
                                                      !.SerializationType = sSer,
                                                      !.CompressType = sComp,
                                                      !.CallType = sCall],
                       msg |-> [Msg0 EXCEPT !.CalleeServiceName = "svcMsg",
                                            !.CalleeMethod = "methodMsg",
                                            !.CallerServiceName = "callerMsg",
                                            !.ClientReqHead = "reqHeadMsg",
                                            !.CompressType = mComp, !.CallType = mCall]]
    /\ reqBody = <<1>>
    /\ rspBody = <<>>

\* Invoke's getOptions and updateMsg.
MergeOptions ==
    /\ pc = "merge"
    /\ opts' = getOptions(opts, given.baseline, given.callSite)
    /\ msg' = updateMsg(msg, getOptions(opts, given.baseline, given.callSite))
    /\ pc' = "merged"
    /\ UNCHANGED <<now, ctx, reqBody, rspBody, chain, stack, ret, result, env,
                   given, clk, reports, selects, calls, passes, nodeInfo>>
    /\ UNCHANGED concVars

SpecMerge == InitMerge /\ [][MergeOptions]_vars

\* ------------------------------------------------- the remote address alone

\* The networks and addresses ensureMsgRemoteAddr is called with.
Networks == {"tcp", "tcp4", "tcp6", "udp", "udp4", "udp6", "unix", "", "quic"}

Addresses == {"10.0.0.1:8000", "[::1]:8000", "svc.example", "/tmp/s.sock", ""}

\* A remote address set on the message before the call.
PresetAddr == [kind |-> "TCPAddr", str |-> "10.0.0.9:9000"]

\* ensureMsgRemoteAddr on every network and address, with the message's
\* remote address unset or set.
InitAddr ==
    /\ InitCommon
    /\ pc = "addr"
    /\ env = [transports |-> TimingTransports, selects |-> SelectOutcomes,
              delay |-> 0, cancel |-> {FALSE}]
    /\ ctx = [fullLink |-> NoDeadline, deadline |-> NoDeadline, err |-> "nil",
              immutable |-> FALSE]
    /\ opts = Opts0
    /\ \E n \in Networks, a \in Addresses, r \in {NilAddr, PresetAddr} :
           /\ given = [Filters |-> <<>>, rspBody |-> <<>>, network |-> n,
                       address |-> a, remote |-> r]
           /\ msg = [Msg0 EXCEPT !.RemoteAddr = r]
    /\ reqBody = <<1>>
    /\ rspBody = <<>>

\* One call of ensureMsgRemoteAddr.
EnsureRemoteAddr ==
    /\ pc = "addr"
    /\ msg' = ensureMsgRemoteAddr(msg, given.network, given.address)
    /\ pc' = "addrDone"
    /\ UNCHANGED <<now, ctx, opts, reqBody, rspBody, chain, stack, ret, result, env,
                   given, clk, reports, selects, calls, passes, nodeInfo>>
    /\ UNCHANGED concVars

SpecAddr == InitAddr /\ [][EnsureRemoteAddr]_vars

\* ----------------------------------------------------- concurrent attempts

\* How many elements of capacity a shared slice may have beyond its length.
MaxSpare == 2
\* How many select options the shared Options may hold.
MaxShared == 2

\* The zero value of a slot no element was stored in.
ZeroValue == ""

\* The select options getOptions put into the shared Options.
SharedSelectOptions ==
    <<"WithSourceNamespace", "WithSourceServiceName", "WithSourceEnvName",
      "WithEnvTransfer", "WithSourceSetName">>

\* selector.WithContext(ctx), the option of attempt a.
WithContext(a) == IF a = 1 THEN "WithContext#1" ELSE "WithContext#2"

\* transport.WithMsg(msg), transport.WithMultiplexed(true) of attempt a.
MultiplexOptions(a) ==
    IF a = 1 THEN <<"WithMsg#1", "WithMultiplexed#1">>
    ELSE <<"WithMsg#2", "WithMultiplexed#2">>

\* The elements of the slice s.
Elems(h, s) == [i \in 1..s.len |-> h[s.arr][i]]

\* A backing array of capacity c holding es.
ArrayOf(es, c) == [i \in 1..c |-> IF i <= Len(es) THEN es[i] ELSE ZeroValue]

\* The capacity append gives a grown slice: double, or what is needed.
GrownCap(c, needed) == IF 2 * c >= needed THEN 2 * c ELSE needed

\* Go's append(s, vs...): with capacity left the elements are written into
\* the backing array of s, else into a new one. [heap, slice, wrote]
goAppend(h, s, vs) ==
    IF s.len + Len(vs) <= s.cap
    THEN [heap |-> [h EXCEPT ![s.arr] =
                       [i \in 1..s.cap |->
                           IF i > s.len /\ i <= s.len + Len(vs)
                           THEN vs[i - s.len] ELSE h[s.arr][i]]],
          slice |-> [s EXCEPT !.len = @ + Len(vs)],
          wrote |-> {[arr |-> s.arr, idx |-> i] : i \in (s.len + 1)..(s.len + Len(vs))}]
    ELSE [heap |-> Append(h, ArrayOf(Elems(h, s) \o vs,
                                     GrownCap(s.cap, s.len + Len(vs)))),
          slice |-> [arr |-> Len(h) + 1, len |-> s.len + Len(vs),
                     cap |-> GrownCap(s.cap, s.len + Len(vs))],
          wrote |-> {[arr |-> Len(h) + 1, idx |-> i] :
                     i \in (s.len + 1)..(s.len + Len(vs))}]

\* Options.clone: a copy of the struct; its slices are copied as headers
\* and keep their backing arrays.
clone(o) == [SelectOptions |-> o.SelectOptions, CallOptions |-> o.CallOptions]

\* One slice of rebuildSliceCapacity: a slice with capacity beyond its
\* length is moved to a backing array of its own. [heap, slice]
rebuildSlice(h, s) ==
    IF s.len # s.cap
    THEN [heap |-> Append(h, ArrayOf(Elems(h, s), s.cap)),
          slice |-> [arr |-> Len(h) + 1, len |-> s.len, cap |-> s.cap]]
    ELSE [heap |-> h, slice |-> s]

\* Options.rebuildSliceCapacity: CallOptions, then SelectOptions.
\* [heap, opts]
rebuildSliceCapacity(h, o) ==
    [heap |-> rebuildSlice(rebuildSlice(h, o.CallOptions).heap, o.SelectOptions).heap,
     opts |-> [CallOptions |-> rebuildSlice(h, o.CallOptions).slice,
               SelectOptions |->
                   rebuildSlice(rebuildSlice(h, o.CallOptions).heap,
                                o.SelectOptions).slice]]

\* Two attempts are about to enter the selector filter with the same
\* Options on a context marked options-immutable; the shared slices have
\* every length and spare capacity.
InitConc ==
    /\ InitCall
    /\ pc = "attempts"
    /\ env = [transports |-> TimingTransports, selects |-> SelectOutcomes,
              delay |-> 0, cancel |-> {FALSE}]
    /\ ctx = [fullLink |-> NoDeadline, deadline |-> NoDeadline, err |-> "nil",
              immutable |-> TRUE]
    /\ \E mux \in BOOLEAN : opts = [Opts0 EXCEPT !.EnableMultiplexed = mux]
    /\ given = [Filters |-> <<>>, rspBody |-> <<>>]
    /\ msg = Msg0
    /\ reqBody = <<1>>
    /\ rspBody = <<>>
    /\ \E ns \in 0..MaxShared, ss \in 0..MaxSpare, nc \in 0..1, sc \in 0..MaxSpare :
           /\ heap = << ArrayOf(SubSeq(SharedSelectOptions, 1, ns), ns + ss),
                        ArrayOf(SubSeq(<<"WithTimeout">>, 1, nc), nc + sc) >>
           /\ shared = [SelectOptions |-> [arr |-> 1, len |-> ns, cap |-> ns + ss],
                        CallOptions |-> [arr |-> 2, len |-> nc, cap |-> nc + sc]]
    /\ att = [a \in Attempts |-> [pc |-> "enter", opts |-> NoSlices]]
    /\ writes = {}

\* selectorFilter of attempt a, up to the clone: under an immutable context
\* the attempt works on a clone of the Options of the context.
SelectorFilterClone(a) ==
    /\ pc = "attempts"
    /\ att[a].pc = "enter"
    /\ ctx.immutable
    /\ att' = [att EXCEPT ![a] = [pc |-> "cloned", opts |-> clone(shared)]]
    /\ UNCHANGED <<heap, shared, writes>>
    /\ UNCHANGED callVars

\* A slip: the clone keeps the capacity it shares with the other attempts.
SelectorFilterRebuild_Skipped(a) ==
    /\ pc = "attempts"
    /\ att[a].pc = "cloned"
    /\ att' = [att EXCEPT ![a].pc = "rebuilt"]
    /\ UNCHANGED <<heap, shared, writes>>
    /\ UNCHANGED callVars

\* selectorFilter of attempt a: the clone rebuilds its slice capacity and is
\* installed on the attempt's context.
SelectorFilterRebuild(a) ==
    /\ pc = "attempts"
    /\ att[a].pc = "cloned"
    /\ att' = [att EXCEPT ![a] = [pc |-> "rebuilt",
                                  opts |-> rebuildSliceCapacity(heap, att[a].opts).opts]]
    /\ heap' = rebuildSliceCapacity(heap, att[a].opts).heap
    /\ UNCHANGED <<shared, writes>>
    /\ UNCHANGED callVars

\* selectNode of attempt a: selector.WithContext(ctx) is appended to the
\* attempt's SelectOptions.
SelectNodeAppend(a) ==
    /\ pc = "attempts"
    /\ att[a].pc = "rebuilt"
    /\ LET r == goAppend(heap, att[a].opts.SelectOptions, <<WithContext(a)>>)
       IN  /\ heap' = r.heap
           /\ att' = [att EXCEPT ![a].pc = "selected",
                                 ![a].opts.SelectOptions = r.slice]
           /\ writes' = writes \cup {[by |-> a, arr |-> w.arr, idx |-> w.idx] : w \in r.wrote}
    /\ UNCHANGED shared
    /\ UNCHANGED callVars

\* callFunc of attempt a: with multiplexing, WithMsg and WithMultiplexed are
\* appended to the attempt's CallOptions.
CallFuncAppend(a) ==
    /\ pc = "attempts"
    /\ att[a].pc = "selected"
    /\ LET r == IF opts.EnableMultiplexed
                THEN goAppend(heap, att[a].opts.CallOptions, MultiplexOptions(a))
                ELSE [heap |-> heap, slice |-> att[a].opts.CallOptions, wrote |-> {}]
       IN  /\ heap' = r.heap
           /\ att' = [att EXCEPT ![a].pc = "done",
                                 ![a].opts.CallOptions = r.slice]
           /\ writes' = writes \cup {[by |-> a, arr |-> w.arr, idx |-> w.idx] : w \in r.wrote}
    /\ UNCHANGED shared
    /\ UNCHANGED callVars

NextConc ==
    \/ \E a \in Attempts : SelectorFilterClone(a)
    \/ \E a \in Attempts : SelectorFilterRebuild(a)
    \/ \E a \in Attempts : SelectNodeAppend(a)
    \/ \E a \in Attempts : CallFuncAppend(a)

\* Two concurrent attempts under an options-immutable context.
SpecConc == InitConc /\ [][NextConc]_vars

\* ------------------------------------------------------------- properties

IsClientTimeout(e) == e.type = "framework" /\ e.code = "ClientTimeout"

LastPass == passes[Len(passes)]

\* C1, as stated: every Invoke that reached node selection has reported to
\* the selector exactly once when it returns, whatever node selection gave,
\* with the cost measured around next.
C1_ReportExactlyOncePerInvoke ==
    (pc = "done" /\ passes # <<>>) =>
        /\ Len(reports) = 1
        /\ reports[1].cost = LastPass.end - LastPass.nextAt

\* C1, amended: Selector.Report is invoked exactly once in every pass through
\* the selector filter in which selectNode returned a node, for that node and
\* with the cost measured around next; it is not invoked in a pass in which
\* selectNode failed. So a call reports as many times as it has passes that
\* selected a node: never when selection fails, several times under a
\* retrying interceptor.
C1_ReportOncePerSelectedPass ==
    /\ \A i \in 1..Len(passes) :
         IF passes[i].selected
         THEN /\ Len(passes[i].reported) = 1
              /\ passes[i].reported[1].node = passes[i].node
              /\ passes[i].reported[1].cost = passes[i].end - passes[i].nextAt
         ELSE passes[i].reported = <<>>
    /\ Len(reports) = Cardinality({i \in 1..Len(passes) : passes[i].selected})
    /\ \A k \in 1..Len(reports) :
         \E i \in 1..Len(passes) : passes[i].reported = <<reports[k]>>

\* A call whose first pass failed to select, whose second pass selected a
\* node after Select had blocked, and reported a positive cost.
C1_Witness ==
    /\ pc = "done"
    /\ Len(passes) = 2
    /\ ~passes[1].selected
    /\ passes[2].selected
    /\ passes[2].nextAt > passes[1].end
    /\ passes[2].reported[1].cost > 0
    /\ Len(reports) = 1

\* The incoming full-link deadline is tighter than Options.Timeout, or
\* there is no Options.Timeout.
FullLinkTighter ==
    /\ chain # <<>>
    /\ ctx.fullLink.has
    /\ (opts.Timeout <= 0 \/ ctx.fullLink.at < clk.t0 + opts.Timeout)

C3_Scenario ==
    /\ pc = "done"
    /\ chain = <<"sel">>
    /\ ctx.fullLink.has
    /\ opts.Timeout > 0
    /\ ctx.fullLink.at < clk.t0 + opts.Timeout
    /\ Len(calls) = 1
    /\ calls[1].tr.err = NewFrameError("ClientTimeout")

\* C3, as stated: in the timeout scenario Invoke returns ClientTimeout and
\* the selector is reported that error, its message extended by the cost.
C3_ReturnsClientTimeoutAndReportsIt ==
    C3_Scenario =>
        /\ IsClientTimeout(result)
        /\ Len(reports) = 1
        /\ reports[1].err # Nil
        /\ reports[1].err.costs # <<>>

\* C3, amended: in the timeout scenario Invoke returns
\* ClientFullLinkTimeout, callFunc having re-tagged the transport's
\* ClientTimeout before the selector filter sees it; no cost is appended to
\* its message, and Selector.Report receives nil, or that unextended error
\* when Options.shouldErrReportToSelector accepts it.
C3_ReturnsFullLinkTimeoutUnreported ==
    C3_Scenario =>
        /\ result = NewFrameError("ClientFullLinkTimeout")
        /\ Len(reports) = 1
        /\ reports[1].cost = passes[1].end - passes[1].nextAt
        /\ reports[1].err = IF opts.shouldErrReportToSelector = "onError"
                            THEN result ELSE Nil

\* The timeout scenario with the default report predicate and a positive
\* cost.
C3_Witness ==
    /\ C3_Scenario
    /\ opts.shouldErrReportToSelector = "never"
    /\ reports[1].cost > 0
    /\ reports[1].err = Nil

\* Invoke has composed the timeout.
TimeoutComposed == pc = "filters" \/ chain # <<>>

\* min(D, n0 + T) - n1, with only D when T <= 0, only n0 + T without a
\* deadline, and old when there is neither.
ExpectedRequestTimeout(n0, n1, old) ==
    IF ctx.fullLink.has /\ opts.Timeout > 0
    THEN [set |-> TRUE, d |-> Min(ctx.fullLink.at, n0 + opts.Timeout) - n1]
    ELSE IF ctx.fullLink.has
    THEN [set |-> TRUE, d |-> ctx.fullLink.at - n1]
    ELSE IF opts.Timeout > 0
    THEN [set |-> TRUE, d |-> n0 + opts.Timeout - n1]
    ELSE old

\* C7, as stated: the request timeout is min(D, now + T) - now for one
\* instant now of the call (any instant between Invoke's two time reads).
C7_RequestTimeoutAtOneInstant ==
    TimeoutComposed =>
        \E n \in clk.t0..clk.t1 :
            msg.RequestTimeout = ExpectedRequestTimeout(n, n, NoRequestTimeout)

\* C7, amended: the request timeout is min(D, n0 + T) - n1, where n0 is the
\* instant the child context is derived and n1 >= n0 the instant the
\* timeout is written (only D - n1 when T <= 0, only n0 + T - n1 without a
\* deadline); it is left unset when there is neither a deadline nor a
\* positive T.
C7_RequestTimeoutAtTwoInstants ==
    TimeoutComposed =>
        msg.RequestTimeout = ExpectedRequestTimeout(clk.t0, clk.t1, NoRequestTimeout)

\* The local timeout is the bound and time passed before the write: the
\* request timeout is shorter than Options.Timeout.
C7_Witness ==
    /\ TimeoutComposed
    /\ ctx.fullLink.has
    /\ opts.Timeout > 0
    /\ clk.t0 + opts.Timeout < ctx.fullLink.at
    /\ clk.t1 > clk.t0
    /\ msg.RequestTimeout = [set |-> TRUE, d |-> opts.Timeout - (clk.t1 - clk.t0)]

\* Select failed, or answered a node with an empty address.
RouteFailure(p) == ~p.out.ok \/ p.out.node.Address = ""

\* C9: when Select fails or answers a node with an empty address, the pass
\* returns ClientRouteErr, invokes next not at all (no callFunc, so no
\* transport call) and reports nothing; Invoke returns the ClientRouteErr of
\* its last pass, and a call of that one pass has made no transport call and
\* no report when it returns.
C9_RouteFailureReturnsRouteErr ==
    /\ \A i \in 1..Len(passes) :
         RouteFailure(passes[i]) =>
             /\ ~passes[i].selected
             /\ passes[i].err = NewFrameError("ClientRouteErr")
             /\ passes[i].reported = <<>>
             /\ passes[i].ncalls = 0
    /\ (pc = "done" /\ passes # <<>> /\ RouteFailure(LastPass)) =>
           result = NewFrameError("ClientRouteErr")
    /\ (pc = "done" /\ Len(passes) = 1 /\ RouteFailure(passes[1])) =>
           calls = <<>> /\ reports = <<>>

\* Select answered a node with an empty address and Invoke returned.
C9_Witness ==
    /\ pc = "done"
    /\ Len(passes) = 1
    /\ passes[1].out.ok
    /\ passes[1].out.node.Address = ""
    /\ result = NewFrameError("ClientRouteErr")
    /\ calls = <<>>

\* The positions of the selector filter in a filter list.
SelectorPositions(c) == {i \in 1..Len(c) : c[i] = "sel"}

\* C6, as stated: for every DisableFilter, user list and
\* selectorFilterPosFixed, an unpinned selector filter is in the effective
\* chain exactly once, as its last element, and a pinned one is in it
\* exactly at the position the user gave it.
C6_SelectorOnceAtTailOrWherePinned ==
    pc = "chain" =>
        IF ~opts.selectorFilterPosFixed
        THEN SelectorPositions(chain) = {Len(chain)}
        ELSE /\ Cardinality(SelectorPositions(chain)) = 1
             /\ SelectorPositions(chain) = SelectorPositions(given.Filters)

\* C6, amended: with DisableFilter set or an empty user list the effective
\* chain is the selector filter alone, whatever the user pinned; otherwise,
\* unpinned, it is the user list followed by the selector filter (which is
\* then in the chain once, as its last element, if the user list does not
\* hold it), and pinned it is the user list unchanged (the selector filter
\* is wherever the user list holds it, which may be nowhere).
C6_ChainByCase ==
    pc = "chain" =>
        /\ chain = IF opts.DisableFilter \/ given.Filters = <<>>
                   THEN <<"sel">>
                   ELSE IF ~opts.selectorFilterPosFixed
                   THEN given.Filters \o <<"sel">>
                   ELSE given.Filters
        /\ (~opts.selectorFilterPosFixed /\ SelectorPositions(given.Filters) = {}) =>
               SelectorPositions(chain) = {Len(chain)}
        /\ (opts.selectorFilterPosFixed /\ ~opts.DisableFilter /\ given.Filters # <<>>) =>
               SelectorPositions(chain) = SelectorPositions(given.Filters)

\* Filters are disabled and the user pinned the selector filter second of
\* three: the chain is the selector filter alone.
C6_Witness ==
    /\ pc = "chain"
    /\ opts.DisableFilter
    /\ opts.selectorFilterPosFixed
    /\ given.Filters = <<"pass", "sel", "retry">>
    /\ chain = <<"sel">>

Has(seq, x) == \E i \in 1..Len(seq) : seq[i] = x

\* C4, as stated: whenever the message's response error is non-nil after
\* Codec.Decode ran, callFunc returns exactly it and runs neither
\* Decompress nor Unmarshal, the response body staying as it was.
C4_ResponseErrorAlwaysWins ==
    \A i \in 1..Len(calls) :
        (Has(calls[i].stages, "Decode") /\ calls[i].rspErr # Nil) =>
            /\ calls[i].err = calls[i].rspErr
            /\ ~Has(calls[i].stages, "Decompress")
            /\ ~Has(calls[i].stages, "Unmarshal")
            /\ calls[i].after = calls[i].before

\* C4, amended: whenever Codec.Decode returned no error and the message's
\* response error is non-nil after it, callFunc returns exactly that
\* response error, with or without body bytes in the frame; when Decode
\* itself returned an error callFunc returns ClientDecodeFail, even if
\* Decode had set the response error. In both cases neither Decompress nor
\* Unmarshal runs and the response body stays as it was.
C4_ResponseErrorWinsAfterGoodDecode ==
    \A i \in 1..Len(calls) :
        (Has(calls[i].stages, "Decode") /\ calls[i].rspErr # Nil) =>
            /\ calls[i].tr.kind = "reply"
            /\ calls[i].err = IF Decode(calls[i].tr.frame).ok
                              THEN calls[i].rspErr
                              ELSE NewFrameError("ClientDecodeFail")
            /\ ~Has(calls[i].stages, "Decompress")
            /\ ~Has(calls[i].stages, "Unmarshal")
            /\ calls[i].after = calls[i].before

\* A frame with a response error and body bytes arrived, and Invoke
\* returned the response error over a response body the caller had filled.
C4_Witness ==
    /\ pc = "done"
    /\ Len(calls) = 1
    /\ calls[1].tr.frame = <<77, 5, 1, 11>>
    /\ calls[1].rspErr = BusinessError("ret")
    /\ result = BusinessError("ret")
    /\ rspBody = <<2>>

\* The serialization type the call calls[i] used.
CallSerializationType(c) ==
    IF IsValidSerializationType(c.ser[1]) THEN c.ser[1] ELSE c.ser[2]

\* C8, as stated: with an echoing transport and a symmetric codec,
\* serializer and compressor, a successful call leaves the response body
\* equal to the request body, also for bodies that marshal to zero bytes and
\* for every combination of valid and invalid types.
C8_EchoGivesBackTheBody ==
    \A i \in 1..Len(calls) :
        (calls[i].tr.kind = "echo" /\ calls[i].err = Nil) =>
            calls[i].after = reqBody

\* C8, amended: with an echoing transport and a symmetric codec, serializer
\* and compressor, a successful call leaves the response body equal to the
\* request body when the serialization type in force is valid and the
\* marshalled body is not empty; when the type is invalid (nothing is
\* marshalled) or the body marshals to zero bytes, the response body is left
\* as the caller passed it.
C8_EchoGivesBackANonEmptyValidBody ==
    \A i \in 1..Len(calls) :
        (calls[i].tr.kind = "echo" /\ calls[i].err = Nil) =>
            calls[i].after =
                IF /\ IsValidSerializationType(CallSerializationType(calls[i]))
                   /\ Marshal(CallSerializationType(calls[i]), reqBody).buf # <<>>
                THEN reqBody
                ELSE calls[i].before

\* A body went through Marshal, Compress, Encode, the echo, Decode,
\* Decompress and Unmarshal and came back over what the caller had passed.
C8_Witness ==
    /\ pc = "done"
    /\ result = Nil
    /\ Len(calls) = 1
    /\ calls[1].tr.kind = "echo"
    /\ calls[1].stages = <<"Marshal", "Compress", "Encode", "RoundTrip", "Decode",
                           "Decompress", "Unmarshal">>
    /\ reqBody = <<1, 2>>
    /\ calls[1].before = <<2>>
    /\ rspBody = <<1, 2>>

\* The transport answered the call c with the send-only sentinel.
SendOnly(c) == c.tr.err = ErrClientNoResponse /\ Has(c.stages, "RoundTrip")

\* C10: when Transport.RoundTrip returns ErrClientNoResponse, callFunc
\* returns nil having run neither Codec.Decode nor Decompress nor Unmarshal
\* and leaves the response body as it was; the selector filter pass around
\* that call reports a nil error to the selector.
C10_NoResponseIsSuccess ==
    /\ \A i \in 1..Len(calls) :
         SendOnly(calls[i]) =>
             /\ calls[i].err = Nil
             /\ ~Has(calls[i].stages, "Decode")
             /\ ~Has(calls[i].stages, "Decompress")
             /\ ~Has(calls[i].stages, "Unmarshal")
             /\ calls[i].after = calls[i].before
    /\ \A j \in 1..Len(passes) :
         (/\ passes[j].selected
          /\ passes[j].ncalls = 1
          /\ SendOnly(calls[passes[j].callsAt + 1])) =>
             /\ passes[j].reported[1].err = Nil
             /\ passes[j].err = Nil

\* A send-only call returned nil from Invoke after one report, the response
\* body still what the caller had passed.
C10_Witness ==
    /\ pc = "done"
    /\ Len(calls) = 1
    /\ SendOnly(calls[1])
    /\ result = Nil
    /\ Len(reports) = 1
    /\ reports[1].err = Nil
    /\ rspBody = <<2>>

\* The backing arrays the Options o refers to.
ArraysOf(o) == {o.SelectOptions.arr, o.CallOptions.arr}

\* The attempts that hold a clone.
Cloned == {a \in Attempts : att[a].pc \notin {"idle", "enter"}}

\* C5: under an options-immutable context, in every interleaving of two
\* attempts that clone and rebuild before they append, no append writes into
\* a backing array that the shared Options or the other attempt refers to,
\* the shared slices stay as they were, and when both attempts have
\* finished each one's SelectOptions are the shared ones followed by its own
\* entry, without the entry of the other.
C5_AttemptsDoNotAlias ==
    /\ \A w \in writes :
         /\ w.arr \notin ArraysOf(shared)
         /\ \A b \in Cloned \ {w.by} : w.arr \notin ArraysOf(att[b].opts)
    /\ pc = "attempts" =>
         /\ heap[shared.SelectOptions.arr] =
                ArrayOf(SubSeq(SharedSelectOptions, 1, shared.SelectOptions.len),
                        shared.SelectOptions.cap)
         /\ \A i \in (shared.CallOptions.len + 1)..shared.CallOptions.cap :
                heap[shared.CallOptions.arr][i] = ZeroValue
    /\ (\A a \in Attempts : att[a].pc = "done") =>
         \A a \in Attempts :
             /\ Elems(heap, att[a].opts.SelectOptions) =
                    Elems(heap, shared.SelectOptions) \o <<WithContext(a)>>
             /\ \A b \in Attempts \ {a} :
                    ~Has(Elems(heap, att[a].opts.SelectOptions), WithContext(b))
             /\ opts.EnableMultiplexed =>
                    Elems(heap, att[a].opts.CallOptions) =
                        Elems(heap, shared.CallOptions) \o MultiplexOptions(a)

\* Both attempts finished, having started from shared slices with spare
\* capacity, where an append in place would have been seen by the other.
C5_Witness ==
    /\ \A a \in Attempts : att[a].pc = "done"
    /\ shared.SelectOptions.len = 2
    /\ shared.SelectOptions.cap > shared.SelectOptions.len
    /\ opts.EnableMultiplexed
    /\ att[1].opts.SelectOptions.arr # att[2].opts.SelectOptions.arr
    /\ Elems(heap, att[1].opts.SelectOptions) =
           <<"WithSourceNamespace", "WithSourceServiceName", "WithContext#1">>
    /\ Elems(heap, att[2].opts.SelectOptions) =
           <<"WithSourceNamespace", "WithSourceServiceName", "WithContext#2">>

\* Codec.Decode of the call c succeeded with an empty body buffer and set no
\* response error.
DecodedEmpty(c) ==
    /\ c.rsp # <<>>
    /\ Decode(c.rsp[1]).ok
    /\ Decode(c.rsp[1]).body = <<>>
    /\ c.rspErr = Nil

\* C11: when Codec.Decode succeeds with a zero-length body buffer and no
\* response error, callFunc returns nil, neither Decompress nor Unmarshal
\* is invoked and the response body stays as it was, whatever compress and
\* serialization types are configured.
C11_EmptyBodyReturnsNil ==
    \A i \in 1..Len(calls) :
        DecodedEmpty(calls[i]) =>
            /\ calls[i].err = Nil
            /\ ~Has(calls[i].stages, "Decompress")
            /\ ~Has(calls[i].stages, "Unmarshal")
            /\ calls[i].after = calls[i].before

\* An empty success frame arrived on a call configured with gzip and JSON,
\* and Invoke returned nil over the response body the caller had filled.
C11_Witness ==
    /\ pc = "done"
    /\ result = Nil
    /\ Len(calls) = 1
    /\ calls[1].tr.kind = "reply"
    /\ DecodedEmpty(calls[1])
    /\ calls[1].comp[1] = CompressTypeGzip
    /\ calls[1].ser[1] = SerializationTypeJSON
    /\ rspBody = <<2>>

\* The network is one of the IP family.
IsIPNetwork(n) == n \in {"tcp", "tcp4", "tcp6", "udp", "udp4", "udp6"}

\* The kind of address the claim names for a network.
AddrKindFor(n) ==
    IF n \in {"tcp", "tcp4", "tcp6"} THEN "TCPAddr"
    ELSE IF n \in {"udp", "udp4", "udp6"} THEN "UDPAddr"
    ELSE IF n = "unix" THEN "UnixAddr"
    ELSE "TCPAddr"

\* C12: ensureMsgRemoteAddr, called with the remote address unset, leaves
\* it unset for an IP-family network whose address is not a literal-IP
\* host:port, sets it to the address resolved for the network's family
\* otherwise, and leaves it unset (nil) whenever the resolution fails.
C12_RemoteAddrResolvedOrUnset ==
    (pc = "addrDone" /\ given.remote = NilAddr) =>
        msg.RemoteAddr =
            IF IsIPNetwork(given.network) /\ ~IsLiteralIPHostPort(given.address)
            THEN NilAddr
            ELSE IF Resolves(given.network, given.address)
            THEN [kind |-> AddrKindFor(given.network), str |-> given.address]
            ELSE NilAddr

\* The value of a field by the stated precedence: the call-site option's,
\* else the baseline's, else other.
ByPrecedence(site, base, other) ==
    IF site # <<>> THEN site[1] ELSE IF base # <<>> THEN base[1] ELSE other

\* C13, as stated: every pushed field of the message has the call-site
\* option's value if one was given, else the baseline's, else the value the
\* message had; a call-site value always wins, a compress type of noop
\* included.
C13_CallSiteThenBaselineThenMessage ==
    pc = "merged" =>
        LET b == given.baseline
            c == given.callSite
            m == given.msg
        IN  /\ msg.CalleeServiceName =
                   ByPrecedence(c.ServiceName, b.ServiceName, m.CalleeServiceName)
            /\ msg.CalleeMethod = ByPrecedence(c.CalleeMethod, b.CalleeMethod, m.CalleeMethod)
            /\ msg.CallerServiceName =
                   ByPrecedence(c.CallerServiceName, b.CallerServiceName, m.CallerServiceName)
            /\ msg.SerializationType =
                   ByPrecedence(c.SerializationType, b.SerializationType, m.SerializationType)
            /\ msg.CompressType = ByPrecedence(c.CompressType, b.CompressType, m.CompressType)
            /\ msg.ClientReqHead = ByPrecedence(c.ReqHead, b.ReqHead, m.ClientReqHead)
            /\ msg.ClientRspHead = ByPrecedence(c.RspHead, b.RspHead, m.ClientRspHead)
            /\ msg.CallType = ByPrecedence(c.CallType, b.CallType, m.CallType)

\* C13, amended: the Options value of every field is the call-site option's
\* value if one was given, else the baseline's, else the Options default.
\* updateMsg pushes it into the message only if it is a non-empty name, a
\* valid serialization type, a valid compress type other than noop, or a
\* non-nil head; otherwise the message keeps the value it had, so a
\* call-site empty name, invalid serialization type or compress type of
\* noop replaces nothing. The call type is always the Options value, never
\* the one the message had.
C13_OptionsValuePushedIfSet ==
    pc = "merged" =>
        LET b == given.baseline
            c == given.callSite
            m == given.msg
            name == ByPrecedence(c.ServiceName, b.ServiceName, Opts0.ServiceName)
            method == ByPrecedence(c.CalleeMethod, b.CalleeMethod, Opts0.CalleeMethod)
            caller == ByPrecedence(c.CallerServiceName, b.CallerServiceName,
                                   Opts0.CallerServiceName)
            ser == ByPrecedence(c.SerializationType, b.SerializationType,
                                Opts0.SerializationType)
            comp == ByPrecedence(c.CompressType, b.CompressType, Opts0.CompressType)
            req == ByPrecedence(c.ReqHead, b.ReqHead, Opts0.ReqHead)
            rsp == ByPrecedence(c.RspHead, b.RspHead, Opts0.RspHead)
        IN  /\ msg.CalleeServiceName = IF name # "" THEN name ELSE m.CalleeServiceName
            /\ msg.CalleeMethod = IF method # "" THEN method ELSE m.CalleeMethod
            /\ msg.CallerServiceName = IF caller # "" THEN caller ELSE m.CallerServiceName
            /\ msg.SerializationType =
                   IF IsValidSerializationType(ser) THEN ser ELSE m.SerializationType
            /\ msg.CompressType =
                   IF IsValidCompressType(comp) /\ comp # CompressTypeNoop
                   THEN comp ELSE m.CompressType
            /\ msg.ClientReqHead = IF req # "" THEN req ELSE m.ClientReqHead
            /\ msg.ClientRspHead = IF rsp # "" THEN rsp ELSE m.ClientRspHead
            /\ msg.CallType = ByPrecedence(c.CallType, b.CallType, Opts0.CallType)

\* A call-site compress type of noop over a gzip baseline left the message
\* with the gzip it had, and a call-site serialization type replaced the
\* baseline's.
C13_Witness ==
    /\ pc = "merged"
    /\ given.callSite.CompressType = <<CompressTypeNoop>>
    /\ given.baseline.CompressType = <<CompressTypeGzip>>
    /\ given.msg.CompressType = CompressTypeGzip
    /\ msg.CompressType = CompressTypeGzip
    /\ given.baseline.SerializationType = <<SerializationTypePB>>
    /\ given.callSite.SerializationType = <<SerializationTypeJSON>>
    /\ msg.SerializationType = SerializationTypeJSON
    /\ msg.CalleeServiceName = "svcSite"

\* The error is a framework error of a kind the selector is always told.
IsReportedKind(e) ==
    /\ e.type = "framework"
    /\ e.code \in {"ClientConnectFail", "ClientTimeout", "ClientNetErr"}

\* The user predicate accepts the error.
PredicateAccepts(e) ==
    \/ opts.shouldErrReportToSelector = "always"
    \/ opts.shouldErrReportToSelector = "onError" /\ e # Nil

\* C14, as stated: the error Selector.Report receives is non-nil exactly
\* when next's error is of a reported kind or the user predicate accepts
\* it; only an error of a reported kind has the cost appended; the filter
\* returns the error next returned.
C14_ReportNonNilIffKindOrPredicate ==
    \A i \in 1..Len(passes) :
        passes[i].selected =>
            LET p == passes[i]
            IN  /\ (p.reported[1].err # Nil) <=>
                       (IsReportedKind(p.nextErr) \/ PredicateAccepts(p.nextErr))
                /\ p.err.costs = IF IsReportedKind(p.nextErr)
                                 THEN Append(p.nextErr.costs, p.reported[1].cost)
                                 ELSE p.nextErr.costs
                /\ p.err.type = p.nextErr.type
                /\ p.err.code = p.nextErr.code

\* C14, amended: Selector.Report receives the error next returned, with
\* the cost appended to its message, when that error is a framework error
\* with code ClientConnectFail, ClientTimeout or ClientNetErr; it receives
\* the error next returned, as it is, when the error is not of those but
\* the user predicate accepts it, which is a nil error if the predicate
\* accepts nil; in every other case it receives nil. So the reported error
\* is non-nil exactly when next's error is of a reported kind, or is
\* non-nil and accepted by the predicate. The filter returns the error
\* next returned, extended only in the first case.
C14_ReportIsNextErrorOrNil ==
    \A i \in 1..Len(passes) :
        passes[i].selected =>
            LET p == passes[i]
                extended == [p.nextErr EXCEPT !.costs = Append(@, p.reported[1].cost)]
            IN  /\ p.reported[1].err =
                       IF IsReportedKind(p.nextErr) THEN extended
                       ELSE IF PredicateAccepts(p.nextErr) THEN p.nextErr
                       ELSE Nil
                /\ (p.reported[1].err # Nil) <=>
                       \/ IsReportedKind(p.nextErr)
                       \/ PredicateAccepts(p.nextErr) /\ p.nextErr # Nil
                /\ p.err = IF IsReportedKind(p.nextErr) THEN extended ELSE p.nextErr

\* A failed connection was reported with its cost appended, under a
\* predicate that accepts nothing.
C14_Witness ==
    /\ pc = "done"
    /\ opts.shouldErrReportToSelector = "never"
    /\ Len(passes) = 1
    /\ passes[1].selected
    /\ passes[1].nextErr = NewFrameError("ClientConnectFail")
    /\ passes[1].reported[1].cost > 0
    /\ passes[1].reported[1].err.costs = <<passes[1].reported[1].cost>>
    /\ result = passes[1].reported[1].err

\* The incoming full-link deadline is the bound that limits the call: there
\* is one, and Options.Timeout is absent or its deadline, derived at t0, is
\* the later one.
FullLinkLimits ==
    /\ ctx.fullLink.has
    /\ (opts.Timeout <= 0 \/ ctx.fullLink.at < clk.t0 + opts.Timeout)

\* C17: Invoke installs the full-link timeout fixer exactly when the
\* incoming full-link deadline is the bound that limits the call, however
\* much time elapses between the derivation of the child context and the
\* comparison; otherwise fixTimeout stays the identity and callFunc returns
\* the transport's ClientTimeout as ClientTimeout.
C17_FixerIffFullLinkLimits ==
    TimeoutComposed =>
        /\ (opts.fixTimeout = "fullLink") <=> FullLinkLimits
        /\ \A i \in 1..Len(calls) :
               (~FullLinkLimits /\ calls[i].tr.err = NewFrameError("ClientTimeout"))
                   => calls[i].err.code = "ClientTimeout"

\* The place of a stage in the pipeline of callFunc.
StageRank(st) ==
    CASE st = "Marshal" -> 1
      [] st = "Compress" -> 2
      [] st = "Encode" -> 3
      [] st = "RoundTrip" -> 4
      [] st = "Decode" -> 5
      [] st = "Decompress" -> 7
      [] st = "Unmarshal" -> 8

\* The compress type the call c used.
CallCompressType(c) ==
    IF IsValidCompressType(c.comp[1]) THEN c.comp[1] ELSE c.comp[2]

\* The body buffer the call c handed to Unmarshal.
UnmarshalInput(c) ==
    IF Has(c.stages, "Decompress")
    THEN Decompress(CallCompressType(c), Decode(c.rsp[1]).body).buf
    ELSE Decode(c.rsp[1]).body

\* The stage st of the call c ran and failed, as its inputs tell.
StageFailed(c, st) ==
    /\ Has(c.stages, st)
    /\ CASE st = "Marshal" -> ~Marshal(CallSerializationType(c), reqBody).ok
         [] st = "Compress" -> "Compress" \in c.tr.fails
         [] st = "Encode" -> "Encode" \in c.tr.fails
         [] st = "RoundTrip" -> c.tr.kind = "error"
         [] st = "Decode" -> ~Decode(c.rsp[1]).ok
         [] st = "Decompress" ->
                ~Decompress(CallCompressType(c), Decode(c.rsp[1]).body).ok
         [] st = "Unmarshal" ->
                ~Unmarshal(CallSerializationType(c), UnmarshalInput(c)).ok

\* C15: within one callFunc the stages run in the order Marshal, Compress,
\* Encode, RoundTrip, Decode, response-error check, Decompress, Unmarshal,
\* each at most once; the first stage that fails is the last that runs, and
\* a response error found by the check lets neither Decompress nor
\* Unmarshal run.
C15_StagesInOrderUntilFirstFailure ==
    \A i \in 1..Len(calls) :
        LET c == calls[i]
        IN  /\ \A j, k \in 1..Len(c.stages) :
                   j < k => StageRank(c.stages[j]) < StageRank(c.stages[k])
            /\ \A k \in 1..Len(c.stages) :
                   StageFailed(c, c.stages[k]) => k = Len(c.stages)
            /\ (Has(c.stages, "Decode") /\ c.rspErr # Nil) =>
                   c.stages[Len(c.stages)] = "Decode"

\* Decompress failed on a response that had come through the six stages
\* before it, and Unmarshal did not run.
C15_Witness ==
    /\ pc = "done"
    /\ Len(calls) = 1
    /\ calls[1].stages = <<"Marshal", "Compress", "Encode", "RoundTrip", "Decode",
                           "Decompress">>
    /\ StageFailed(calls[1], "Decompress")
    /\ calls[1].err = NewFrameError("ClientDecodeFail")

\* C16: a nil codec or a failing Marshal, Compress or Encode gives
\* ClientEncodeFail without any RoundTrip; a failing Decode, Decompress or
\* Unmarshal gives ClientDecodeFail; a transport error other than the
\* send-only sentinel is returned as it is, apart from fixTimeout; a stage
\* whose type code is invalid is skipped, and the skip is no error.
C16_ErrorKindByFailingStage ==
    \A i \in 1..Len(calls) :
        LET c == calls[i]
            failed(st) == StageFailed(c, st)
        IN  /\ ~opts.CodecSet =>
                   c.err = NewFrameError("ClientEncodeFail") /\ c.stages = <<>>
            /\ (failed("Marshal") \/ failed("Compress") \/ failed("Encode")) =>
                   /\ c.err = NewFrameError("ClientEncodeFail")
                   /\ ~Has(c.stages, "RoundTrip")
            /\ (failed("Decode") \/ failed("Decompress") \/ failed("Unmarshal")) =>
                   c.err = NewFrameError("ClientDecodeFail")
            /\ (failed("RoundTrip") /\ c.tr.err # ErrClientNoResponse) =>
                   c.err = ApplyFixTimeout(c.fix, c.tr.err)
            /\ ~IsValidSerializationType(CallSerializationType(c)) =>
                   ~Has(c.stages, "Marshal") /\ ~Has(c.stages, "Unmarshal")
            /\ ~IsValidCompressType(CallCompressType(c)) =>
                   ~Has(c.stages, "Compress") /\ ~Has(c.stages, "Decompress")
            /\ (/\ opts.CodecSet
                /\ ~IsValidSerializationType(CallSerializationType(c))
                /\ ~IsValidCompressType(CallCompressType(c))
                /\ c.tr.kind = "echo"
                /\ c.tr.fails = {}) =>
                   c.err = Nil /\ c.stages = <<"Encode", "RoundTrip", "Decode">>

\* Unmarshal failed on a decompressed response and the call returned
\* ClientDecodeFail.
C16_Witness ==
    /\ pc = "done"
    /\ Len(calls) = 1
    /\ StageFailed(calls[1], "Unmarshal")
    /\ Has(calls[1].stages, "Decompress")
    /\ calls[1].err = NewFrameError("ClientDecodeFail")
    /\ result = NewFrameError("ClientDecodeFail")

\* The step is a pass of the selector filter through selectNode in which
\* Select answered a node with a non-empty address.
SelectAnsweredNode ==
    /\ Len(selects') = Len(selects) + 1
    /\ ~(/\ Len(passes') = Len(passes) + 1
         /\ RouteFailure(passes'[Len(passes')]))

\* C18: when Select has answered a node with a non-empty address and the
\* context is cancelled by then, the selector filter returns ClientCanceled;
\* when its deadline is exceeded by then, it returns what fixTimeout makes
\* of ClientTimeout; either way the pass ends there, without a call of
\* next, so without any callFunc.
C18_ContextCheckedAfterSelect ==
    [][(SelectAnsweredNode /\ ctx'.err # "nil") =>
           /\ Len(passes') = Len(passes) + 1
           /\ ~passes'[Len(passes')].selected
           /\ passes'[Len(passes')].ncalls = 0
           /\ calls' = calls
           /\ Len(stack') < Len(stack)
           /\ ret' = passes'[Len(passes')].err
           /\ ret' = IF ctx'.err = "Canceled"
                     THEN NewFrameError("ClientCanceled")
                     ELSE ApplyFixTimeout(opts.fixTimeout, NewFrameError("ClientTimeout"))]_vars

\* Select answered a node after the deadline of the local timeout had
\* passed; Invoke returned ClientTimeout and callFunc never ran.
C18_Witness ==
    /\ pc = "done"
    /\ ~ctx.fullLink.has
    /\ ctx.err = "DeadlineExceeded"
    /\ Len(passes) = 1
    /\ ~passes[1].selected
    /\ ~RouteFailure(passes[1])
    /\ result = NewFrameError("ClientTimeout")
    /\ calls = <<>>

\* The passes that selected a node, in the order they ran.
SelectedPasses == {i \in 1..Len(passes) : passes[i].selected}

FirstSelected == CHOOSE i \in SelectedPasses : \A j \in SelectedPasses : i <= j

LastSelected == CHOOSE i \in SelectedPasses : \A j \in SelectedPasses : j <= i

\* C19, as stated: after every pass that selected a node, the address
\* published through Options.Node.set and the message's remote address
\* designate the node selected in that pass, also when an earlier pass of
\* the call had selected another node.
C19_PublishedAddrIsOfNodeJustSelected ==
    nodeInfo.set =>
        /\ nodeInfo.node = passes[LastSelected].node
        /\ nodeInfo.addr = nodeInfo.node.Address
        /\ msg.RemoteAddr.str = nodeInfo.node.Address

\* C19, amended: after every pass that selected a node, the node published
\* through Options.Node.set is the node selected in that pass; the
\* message's remote address is set at most once per call, by the first
\* pass that selected a node (the nodes here have literal IP addresses
\* that resolve), and the published address is that remote address, so it
\* designates the node of the first pass, not of the pass just made.
C19_PublishedAddrIsOfFirstNode ==
    nodeInfo.set =>
        /\ nodeInfo.node = passes[LastSelected].node
        /\ msg.RemoteAddr # NilAddr
        /\ msg.RemoteAddr.str = passes[FirstSelected].node.Address
        /\ nodeInfo.addr = msg.RemoteAddr.str

\* Two passes of one call selected different nodes; the node published is
\* the second, the address published is the first's.
C19_Witness ==
    /\ pc = "done"
    /\ Cardinality(SelectedPasses) = 2
    /\ passes[FirstSelected].node = NodeA
    /\ passes[LastSelected].node = NodeB
    /\ nodeInfo.node = NodeB
    /\ nodeInfo.addr = NodeA.Address
    /\ msg.RemoteAddr.str = NodeA.Address

\* k times the context option selectNode appends.
ContextOptions(k) == [i \in 1..k |-> "WithContext"]

\* k times the pair of options callFunc appends under multiplexing.
MultiplexedOptions(k) ==
    [i \in 1..(2 * k) |-> IF i % 2 = 1 THEN "WithMsg" ELSE "WithMultiplexed"]

\* C20, as stated: without the options-immutable marker, every pass of a
\* sequentially re-invoked next behaves like the first: Select receives
\* exactly one context option and, under multiplexing, RoundTrip receives
\* WithMsg and WithMultiplexed exactly once.
C20_EveryPassLikeTheFirst ==
    ~ctx.immutable =>
        /\ \A k \in 1..Len(selects) : selects[k] = ContextOptions(1)
        /\ \A j \in 1..Len(calls) :
               (opts.EnableMultiplexed /\ Has(calls[j].stages, "RoundTrip")) =>
                   calls[j].sent = <<MultiplexedOptions(1)>>

\* C20, amended: without the options-immutable marker the passes share one
\* Options value and the appends accumulate: the k-th Select of the call
\* receives k context options and, under multiplexing, the j-th RoundTrip
\* receives the pair WithMsg, WithMultiplexed j times; only the first pass
\* sees each exactly once.
C20_AppendsAccumulateAcrossPasses ==
    ~ctx.immutable =>
        /\ \A k \in 1..Len(selects) : selects[k] = ContextOptions(k)
        /\ \A j \in 1..Len(calls) :
               /\ Has(calls[j].stages, "RoundTrip")
               /\ calls[j].sent = IF opts.EnableMultiplexed
                                  THEN <<MultiplexedOptions(j)>>
                                  ELSE << <<>> >>

\* Under multiplexing a second pass followed a failed first one: its
\* Select received two context options and its RoundTrip the pair twice.
C20_Witness ==
    /\ pc = "done"
    /\ ~ctx.immutable
    /\ opts.EnableMultiplexed
    /\ Len(selects) = 2
    /\ Len(calls) = 2
    /\ selects[2] = <<"WithContext", "WithContext">>
    /\ calls[1].sent = << <<"WithMsg", "WithMultiplexed">> >>
    /\ calls[2].sent = << <<"WithMsg", "WithMultiplexed", "WithMsg", "WithMultiplexed">> >>

====
